---- MODULE Spec2Model ----
(***************************************************************************)
(* Alert lifecycle orchestration of the AML compliance platform:           *)
(* AlertLifecycleWorkflow.run (the Dispatcher), the alert lifecycle        *)
(* activities and the task-linkage activity of src/src/workflows/worker.py.*)
(*                                                                         *)
(* Every activity runs inside `async with pool.connection() as conn`, one  *)
(* READ COMMITTED transaction committed when the block is left.  Its       *)
(* SELECT of the current status is one step (ActivityRead) and its UPDATE, *)
(* history INSERT and commit another (ActivityWrite): the row lock taken   *)
(* by the UPDATE serialises the writers, the SELECT takes no lock.         *)
(***************************************************************************)
EXTENDS Integers, Sequences, FiniteSets, TLC

\* ---------------------------------------------------------------- bounds
NumProcs == 2      \* workflow executions that may be in flight together
MaxHistory == 5    \* rows of alert_status_history the alert may get
MaxUnknownRows == 2  \* history rows written for an alert that does not exist
MaxFailHistory == 3  \* rows of alert_status_history when activities may raise
MaxGhostHistory == 3 \* rows of alert_status_history when the actor is no user
MaxNotes == 1      \* rows of alert_notes
MaxReexec == 1     \* re-executions of a committed activity by the facility
MaxSeqHistory == 7 \* rows of alert_status_history when the calls do not overlap
NumTaskProcs == 2  \* task workflow executions that may be in flight together
MaxTaskClock == 4  \* value of NOW() up to which task workflow executions start
MaxTasks == 1      \* rows of tasks at which a task may still be created
MaxTaskAlertHistory == 1 \* rows of alert_status_history when task workflows run
MaxRejectHistory == 3 \* rows of alert_status_history when calls may name any action
MaxRejectClock == 5   \* value of NOW() up to which task calls that may name any action start
NumMessages == 2      \* "alert created" messages in the stream
MaxOutages == 2       \* start_workflow calls that fail before the facility stays available
MaxApiHistory == 4    \* rows of alert_status_history when reopen requests arrive
MaxLinkHistory == 4   \* rows of alert_status_history on the assignment and escalation path

\* ------------------------------------------------------------- constants
NULL == "NULL"
SYSTEM_USER_ID == "00000000-0000-0000-0000-000000000001"

\* the ids _validate_user_exists finds in the users table (the system user is the
\* fallback of _get_valid_user_id)
Users == {"u1", "u2", SYSTEM_USER_ID}
\* a user id that is in no row of users
Ghost == "ghost"

AlertId == 1
\* an alert id no row of alerts has
UnknownAlertId == 2
Procs == 1..NumProcs

ALERT_STATUSES == {"open", "assigned", "in_progress", "escalated", "on_hold", "resolved"}
RESOLUTION_TYPES == {"confirmed_suspicious", "false_positive", "not_suspicious", "duplicate", "other"}

\* ALERT_STATUS_TRANSITIONS as a set of <<from, to>> pairs
ALERT_STATUS_TRANSITIONS ==
    { <<"open", "assigned">>,
      <<"assigned", "in_progress">>, <<"assigned", "open">>,
      <<"in_progress", "escalated">>, <<"in_progress", "on_hold">>, <<"in_progress", "resolved">>,
      <<"escalated", "in_progress">>, <<"escalated", "resolved">>,
      <<"on_hold", "in_progress">>, <<"on_hold", "resolved">>,
      <<"resolved", "open">> }

StatusActions == {"assign", "unassign", "start", "escalate", "hold", "resume", "resolve", "reopen"}
Actions == StatusActions \cup {"init", "add_note"}

VARIABLES
    alerts,     \* alerts table: the row of alert AlertId
    history,    \* alert_status_history rows of the alert, in insertion order
    tasks,      \* tasks table, in insertion order (the index is the task id)
    notes,      \* alert_notes rows of the alert, in insertion order
    clock,      \* value of NOW() for the next committing transaction
    proc,       \* per workflow execution in flight: its arguments, position and locals
    last,       \* the workflow execution that returned in the last step, with its result
    reexecs,    \* activity completions lost so far
    task_history, \* task_status_history rows, in insertion order
    tproc,      \* per task workflow execution in flight: its arguments, position and locals
    tlast,      \* the task workflow execution that returned in the last step, with its result
    msgs,       \* "alert created" messages of the stream: payload and delivery state
    started,    \* messages for whose alert_id an init workflow has been started
    outages,    \* start_workflow calls that have failed so far
    request     \* the reopen request the API is handling: the roles it declares, the response

vars == <<alerts, history, tasks, notes, clock, proc, last, reexecs, task_history, tproc, tlast,
          msgs, started, outages, request>>
db == <<alerts, history, tasks, notes, clock>>
tvars == <<task_history, tproc, tlast>>
pvars == <<msgs, started, outages, request>>

\* ------------------------------------------------------ inputs of Dispatch
DispatchAlertIds == {AlertId}
Actors == {"u1"}
Roles == {"analyst", "manager", "admin"}
\* the role is read by the reopen branch of the Dispatcher alone
RolesOf(action) == IF action = "reopen" THEN Roles ELSE {"analyst"}
Assignees == {"u2", Ghost}
Assigners == {NULL, Ghost}
EscalationTargets == {NULL, "u2"}
Reasons == {NULL}
ResolutionInputs == {NULL, "false_positive", "bogus"}
ResolutionNotes == {NULL, "notes"}
Contents == {NULL, "text"}
Severities == {"critical"}

NoParams ==
    [assigned_to |-> NULL, assigned_by |-> NULL, escalated_to |-> NULL, reason |-> NULL,
     resolution_type |-> NULL, resolution_notes |-> NULL, content |-> NULL]

\* the params maps the callers build for each action (src/src/api/alerts.py)
ParamsOf(action) ==
    CASE action = "assign" ->
            { [NoParams EXCEPT !.assigned_to = t, !.assigned_by = b] : t \in Assignees, b \in Assigners }
      [] action = "escalate" ->
            { [NoParams EXCEPT !.escalated_to = t, !.reason = r] : t \in EscalationTargets, r \in Reasons }
      [] action \in {"hold", "reopen"} ->
            { [NoParams EXCEPT !.reason = r] : r \in Reasons }
      [] action = "resolve" ->
            { [NoParams EXCEPT !.resolution_type = t, !.resolution_notes = n] :
                t \in ResolutionInputs, n \in ResolutionNotes }
      [] action = "add_note" ->
            { [NoParams EXCEPT !.content = c] : c \in Contents }
      [] OTHER -> {NoParams}

\* ----------------------------------------------------------- user helpers
_validate_user_exists(user_id) == user_id \in Users

_get_valid_user_id(user_id) ==
    IF _validate_user_exists(user_id) THEN user_id ELSE SYSTEM_USER_ID

\* `a or b` of Python on optional strings
Or(a, b) == IF a # NULL THEN a ELSE b

\* ----------------------------------------------------- results of a call
NoResult == [success |-> FALSE, status |-> NULL, error |-> NULL, task_id |-> 0, task_action |-> NULL]
Ok(status) == [NoResult EXCEPT !.success = TRUE, !.status = status]
\* a failure returned without its message
ErrNoMessage(msg) == NoResult
Err(msg) == [NoResult EXCEPT !.error = msg]

\* --------------------------------------------------------------- activities
\* the status each status-changing activity writes
TargetStatus(action) ==
    CASE action = "assign" -> "assigned"
      [] action = "unassign" -> "open"
      [] action = "start" -> "in_progress"
      [] action = "escalate" -> "escalated"
      [] action = "hold" -> "on_hold"
      [] action = "resume" -> "in_progress"
      [] action = "resolve" -> "resolved"
      [] action = "reopen" -> "open"

\* StatusGuard with assign accepting an alert that is already assigned
StatusGuardAssignAgain(action, current_status) ==
    CASE action = "assign" -> current_status \in {"open", "assigned"}
      [] action = "unassign" -> current_status = "assigned"
      [] action = "start" -> current_status = "assigned"
      [] action = "escalate" -> current_status = "in_progress"
      [] action = "hold" -> current_status = "in_progress"
      [] action = "resume" -> current_status \in {"on_hold", "escalated"}
      [] action = "resolve" -> current_status \in {"in_progress", "escalated", "on_hold"}
      [] action = "reopen" -> current_status = "resolved"

\* the current-status guard of each status-changing activity
StatusGuard(action, current_status) ==
    CASE action = "assign" -> current_status = "open"
      [] action = "unassign" -> current_status = "assigned"
      [] action = "start" -> current_status = "assigned"
      [] action = "escalate" -> current_status = "in_progress"
      [] action = "hold" -> current_status = "in_progress"
      [] action = "resume" -> current_status \in {"on_hold", "escalated"}
      [] action = "resolve" -> current_status \in {"in_progress", "escalated", "on_hold"}
      [] action = "reopen" -> current_status = "resolved"

\* _get_alert_current_status: NULL when the alert has no row
_get_alert_current_status(alert_id) ==
    IF alert_id \in DOMAIN alerts THEN alerts[alert_id].status ELSE NULL

\* the assignee the assign branch of the Dispatcher passes: params.get("assigned_to", user_id)
AssignedTo(c) == IF c.params.assigned_to = NULL THEN c.user_id ELSE c.params.assigned_to

\* the user whose existence an activity requires (assign, escalate), NULL if none
RequiredUser(c) ==
    CASE c.action = "assign" -> AssignedTo(c)
      [] c.action = "escalate" -> c.params.escalated_to
      [] OTHER -> NULL

\* the user an activity records as changed_by
ValidActor(c) ==
    IF c.action = "assign"
    THEN _get_valid_user_id(Or(c.params.assigned_by, AssignedTo(c)))
    ELSE _get_valid_user_id(c.user_id)

\* the error of an activity whose current-status guard fails; the activities word it
\* per action ("Cannot assign alert in status '<s>'", "Cannot resume alert from
\* status '<s>'", ...), one value stands for them all
PreconditionFailed == "Cannot apply action in current status"

\* ActivityCheck without the current-status guard
ActivityCheckNoGuard(c, current_status) ==
    IF c.action = "resolve" /\ c.params.resolution_type \notin RESOLUTION_TYPES
    THEN "Invalid resolution type"
    ELSE IF current_status = NULL THEN "Alert not found"
    ELSE IF RequiredUser(c) # NULL /\ ~_validate_user_exists(RequiredUser(c)) THEN "User not found"
    ELSE NULL

\* ActivityCheck with resolve_alert_activity accepting any resolution_type
ActivityCheckAnyResolution(c, current_status) ==
    IF current_status = NULL THEN "Alert not found"
    ELSE IF ~StatusGuard(c.action, current_status) THEN PreconditionFailed
    ELSE IF RequiredUser(c) # NULL /\ ~_validate_user_exists(RequiredUser(c)) THEN "User not found"
    ELSE NULL

\* what an activity returns before it writes, NULL when it goes on to the UPDATE
ActivityCheck(c, current_status) ==
    IF c.action = "resolve" /\ c.params.resolution_type \notin RESOLUTION_TYPES
    THEN "Invalid resolution type"
    ELSE IF current_status = NULL THEN "Alert not found"
    ELSE IF ~StatusGuard(c.action, current_status) THEN PreconditionFailed
    ELSE IF RequiredUser(c) # NULL /\ ~_validate_user_exists(RequiredUser(c)) THEN "User not found"
    ELSE NULL

\* the status the activity has read when it returns or writes: resolve_alert_activity
\* validates resolution_type before it opens its connection
SeenStatus(c, current_status) ==
    IF c.action = "resolve" /\ c.params.resolution_type \notin RESOLUTION_TYPES
    THEN NULL ELSE current_status

\* UpdateAlert with the UPDATE of hold writing the status of escalate
UpdateAlertHoldEscalates(row, c, valid_user, now) ==
    CASE c.action = "assign" ->
            [row EXCEPT !.status = "assigned", !.assigned_to = AssignedTo(c),
                        !.assigned_by = valid_user, !.assigned_at = now]
      [] c.action = "unassign" ->
            [row EXCEPT !.status = "open", !.assigned_to = NULL,
                        !.assigned_by = NULL, !.assigned_at = 0]
      [] c.action = "start" -> [row EXCEPT !.status = "in_progress"]
      [] c.action = "escalate" ->
            [row EXCEPT !.status = "escalated", !.escalated_to = c.params.escalated_to,
                        !.escalated_by = valid_user, !.escalated_at = now,
                        !.escalation_reason = Or(c.params.reason, "Escalated")]
      [] c.action = "hold" -> [row EXCEPT !.status = "escalated"]
      [] c.action = "resume" -> [row EXCEPT !.status = "in_progress"]
      [] c.action = "resolve" ->
            [row EXCEPT !.status = "resolved", !.resolution_type = c.params.resolution_type,
                        !.resolution_notes = c.params.resolution_notes,
                        !.resolved_by = c.user_id, !.resolved_at = now]
      [] c.action = "reopen" ->
            [row EXCEPT !.status = "open", !.assigned_to = NULL, !.assigned_by = NULL,
                        !.assigned_at = 0, !.resolution_type = NULL,
                        !.resolved_by = NULL, !.resolved_at = 0]

\* the UPDATE alerts statement of each activity, applied to the row
UpdateAlert(row, c, valid_user, now) ==
    CASE c.action = "assign" ->
            [row EXCEPT !.status = "assigned", !.assigned_to = AssignedTo(c),
                        !.assigned_by = valid_user, !.assigned_at = now]
      [] c.action = "unassign" ->
            [row EXCEPT !.status = "open", !.assigned_to = NULL,
                        !.assigned_by = NULL, !.assigned_at = 0]
      [] c.action = "start" -> [row EXCEPT !.status = "in_progress"]
      [] c.action = "escalate" ->
            [row EXCEPT !.status = "escalated", !.escalated_to = c.params.escalated_to,
                        !.escalated_by = valid_user, !.escalated_at = now,
                        !.escalation_reason = Or(c.params.reason, "Escalated")]
      [] c.action = "hold" -> [row EXCEPT !.status = "on_hold"]
      [] c.action = "resume" -> [row EXCEPT !.status = "in_progress"]
      [] c.action = "resolve" ->
            [row EXCEPT !.status = "resolved", !.resolution_type = c.params.resolution_type,
                        !.resolution_notes = c.params.resolution_notes,
                        !.resolved_by = c.user_id, !.resolved_at = now]
      [] c.action = "reopen" ->
            [row EXCEPT !.status = "open", !.assigned_to = NULL, !.assigned_by = NULL,
                        !.assigned_at = 0, !.resolution_type = NULL,
                        !.resolved_by = NULL, !.resolved_at = 0]

\* a history row that records the status read as the new one
HistoryRowNoChange(previous_status, new_status, changed_by) ==
    [previous_status |-> previous_status, new_status |-> previous_status,
     changed_by |-> changed_by]

\* _log_status_change: the row appended to alert_status_history
HistoryRow(previous_status, new_status, changed_by) ==
    [previous_status |-> previous_status, new_status |-> new_status, changed_by |-> changed_by]

\* a log that keeps the latest row of the alert alone
LogStatusChangeLatestOnly(rows, row) == <<row>>

\* _log_status_change: INSERT INTO alert_status_history, on the rows of the alert
_log_status_change(rows, row) == Append(rows, row)

\* _log_task_status_change: INSERT INTO task_status_history
_log_task_status_change(rows, new_rows) == rows \o new_rows

\* ------------------------------------------------------ task linkage
OpenTaskStatuses == {"pending", "in_progress"}

\* ExistingTask with the lookup filtering on the status of closed tasks
ExistingTaskCompleted(alert_id) ==
    LET open == { i \in 1..Len(tasks) :
                    tasks[i].alert_id = alert_id /\ tasks[i].status \in {"completed"} }
    IN IF open = {} THEN 0 ELSE CHOOSE i \in open : \A j \in open : j <= i

\* the existing-task lookup: the newest pending/in_progress task of the alert, 0 if none
ExistingTask(alert_id) ==
    LET open == { i \in 1..Len(tasks) :
                    tasks[i].alert_id = alert_id /\ tasks[i].status \in OpenTaskStatuses }
    IN IF open = {} THEN 0 ELSE CHOOSE i \in open : \A j \in open : j <= i

TaskType(action) == IF action = "escalate" THEN "escalation" ELSE "investigation"

\* str.lower on the severities an alert row can hold
Lower(s) ==
    CASE s = "CRITICAL" -> "critical"
      [] s = "High" -> "high"
      [] s = "MEDIUM" -> "medium"
      [] s = "Low" -> "low"
      [] s = "INFO" -> "info"
      [] OTHER -> s

\* the priority of an assignment taken from the severity as stored
TaskPriorityCaseSensitive(action, severity) ==
    IF action = "escalate"
    THEN (IF severity = "critical" THEN "critical" ELSE "high")
    ELSE (IF severity \in {"critical", "high", "medium", "low"} THEN severity ELSE "medium")

\* the priority by action: escalate compares the severity as stored, assign maps
\* the lower-cased severity (medium when the alert has none)
TaskPriority(action, severity) ==
    IF action = "escalate"
    THEN (IF severity = "critical" THEN "critical" ELSE "high")
    ELSE LET lowered == Lower(Or(severity, "medium"))
         IN IF lowered \in {"critical", "high", "medium", "low"} THEN lowered ELSE "medium"

\* params.get("assigned_to") or params.get("escalated_to") or user_id, on the
\* params the Dispatcher passes to create_task_from_alert_activity
LinkAssignee(c) ==
    IF c.action = "assign" THEN Or(AssignedTo(c), c.user_id)
    ELSE Or(c.params.escalated_to, c.user_id)

\* an update branch that leaves the task with the user it had
UpdateTaskKeepAssignee(t, c, severity, now) ==
    [t EXCEPT !.assigned_at = now,
              !.priority = TaskPriority(c.action, severity), !.status = "in_progress"]

\* the UPDATE tasks statement of the update branch
UpdateTask(t, c, severity, now) ==
    [t EXCEPT !.assigned_to = LinkAssignee(c), !.assigned_at = now,
              !.priority = TaskPriority(c.action, severity), !.status = "in_progress"]

\* the INSERT INTO tasks statement of the create branch
NewTask(alert_id, c, severity, now) ==
    [alert_id |-> alert_id, task_type |-> TaskType(c.action),
     priority |-> TaskPriority(c.action, severity), status |-> "pending",
     assigned_to |-> LinkAssignee(c), assigned_by |-> NULL, assigned_at |-> now,
     completed_at |-> 0, completed_by |-> NULL, resolution_notes |-> NULL,
     workflow_status |-> NULL, created_by |-> SYSTEM_USER_ID]

\* ------------------------------------------------------------- Dispatcher
\* DispatchCheck without the role check of reopen
DispatchCheckAnyRole(action, user_role, params) ==
    CASE action = "escalate" /\ params.escalated_to = NULL -> "escalated_to is required"
      [] action = "resolve" /\ params.resolution_type = NULL -> "resolution_type is required"
      [] action = "add_note" /\ params.content = NULL -> "content is required"
      [] action \notin Actions -> "Unknown action"
      [] OTHER -> NULL

\* a Dispatcher that leaves the required parameters to the activities
DispatchCheckNoRequired(action, user_role, params) ==
    CASE action = "reopen" /\ user_role \notin {"manager", "admin"} -> "Only managers can reopen alerts"
      [] action \notin Actions -> "Unknown action"
      [] OTHER -> NULL

\* what AlertLifecycleWorkflow.run returns before it schedules an activity, NULL if it goes on
DispatchCheck(action, user_role, params) ==
    CASE action = "escalate" /\ params.escalated_to = NULL -> "escalated_to is required"
      [] action = "resolve" /\ params.resolution_type = NULL -> "resolution_type is required"
      [] action = "reopen" /\ user_role \notin {"manager", "admin"} -> "Only managers can reopen alerts"
      [] action = "add_note" /\ params.content = NULL -> "content is required"
      [] action \notin Actions -> "Unknown action"
      [] OTHER -> NULL

\* the locals of a workflow execution that has not run an activity yet
Call(alert_id, action, user_id, user_role, params, replay) ==
    [pc |-> "activity", alert_id |-> alert_id, action |-> action, user_id |-> user_id,
     user_role |-> user_role, params |-> params, replay |-> replay,
     current_status |-> NULL, existing_task |-> 0,
     activity_result |-> NoResult, result |-> NoResult]

Idle == [Call(AlertId, "init", SYSTEM_USER_ID, "system", NoParams, FALSE) EXCEPT !.pc = "idle"]

\* ------------------------------------------------------- task lifecycle
\* TASK_STATUS_TRANSITIONS as a set of <<from, to>> pairs
TASK_STATUS_TRANSITIONS ==
    { <<"pending", "in_progress">>, <<"in_progress", "pending">>, <<"in_progress", "completed">> }

TaskActions == {"claim", "release", "complete", "assign"}

\* inputs of TaskLifecycleWorkflow.run
TaskDispatchIds == {1, 2}
TaskActors == {"u1", "u2"}
TaskAssignees == {NULL, "u2", Ghost}
TaskNotes == {NULL, "done"}

NoTaskParams == [assigned_to |-> NULL, resolution_notes |-> NULL]

TaskParamsOf(action) ==
    CASE action = "assign" -> { [NoTaskParams EXCEPT !.assigned_to = t] : t \in TaskAssignees }
      [] action = "complete" -> { [NoTaskParams EXCEPT !.resolution_notes = n] : n \in TaskNotes }
      [] OTHER -> {NoTaskParams}

\* the status DocumentRequestWorkflow and SarFilingWorkflow pass to
\* update_task_status_activity once the request is out ("cancelled", passed when the
\* task has no customer, is no value of the task status enumeration of the store)
UpdateStatusInputs == {"pending"}

\* what SELECT * FROM tasks WHERE id gives when no row has the id
NoTask ==
    [alert_id |-> 0, task_type |-> NULL, priority |-> NULL, status |-> NULL,
     assigned_to |-> NULL, assigned_by |-> NULL, assigned_at |-> 0,
     completed_at |-> 0, completed_by |-> NULL, resolution_notes |-> NULL,
     workflow_status |-> NULL, created_by |-> NULL]

\* SELECT * FROM tasks WHERE id
GetTask(task_id) == IF task_id \in 1..Len(tasks) THEN tasks[task_id] ELSE NoTask

\* SELECT email FROM users WHERE id
Email(user_id) == IF user_id \in Users THEN user_id \o "@mail" ELSE user_id

\* the errors of the task activities
TaskNotFound == "Task not found"
Conflict == "Task already assigned to another user"
TaskPreconditionFailed == "Cannot apply action to task in current status"

NoTaskResult == [success |-> FALSE, status |-> NULL, error |-> NULL, assigned_to |-> NULL]
TaskOk(status, assigned_to) ==
    [NoTaskResult EXCEPT !.success = TRUE, !.status = status, !.assigned_to = assigned_to]
TaskErr(msg) == [NoTaskResult EXCEPT !.error = msg]

\* what TaskLifecycleWorkflow.run returns before it schedules an activity, NULL if it goes on
TaskDispatchCheck(action, params) ==
    CASE action = "assign" /\ params.assigned_to = NULL -> "assigned_to is required"
      [] action \notin TaskActions -> "Unknown action"
      [] OTHER -> NULL

\* the user a task activity records as changed_by (claim records the caller as given)
TaskValidActor(c) ==
    IF c.action = "claim" THEN c.user_id ELSE _get_valid_user_id(c.user_id)

\* complete_task_activity without its check of the status it read
TaskActivityCheckCompleteAgain(c, task) ==
    CASE c.action = "claim" ->
            IF ~_validate_user_exists(c.user_id) THEN "User not found"
            ELSE IF task = NoTask THEN TaskNotFound
            ELSE IF task.assigned_to # NULL /\ task.assigned_to # c.user_id THEN Conflict
            ELSE IF task.status \notin {"pending", "in_progress"} THEN TaskPreconditionFailed
            ELSE NULL
      [] c.action = "release" ->
            IF task = NoTask THEN TaskNotFound
            ELSE IF task.status # "in_progress" THEN TaskPreconditionFailed
            ELSE NULL
      [] c.action = "complete" ->
            IF task = NoTask THEN TaskNotFound
            ELSE NULL
      [] c.action = "assign" ->
            IF ~_validate_user_exists(c.params.assigned_to) THEN "User not found"
            ELSE IF task = NoTask THEN TaskNotFound
            ELSE IF task.status = "completed" THEN TaskPreconditionFailed
            ELSE NULL

\* claim_task_activity without its check of the assignee it read
TaskActivityCheckClaimAnyAssignee(c, task) ==
    CASE c.action = "claim" ->
            IF ~_validate_user_exists(c.user_id) THEN "User not found"
            ELSE IF task = NoTask THEN TaskNotFound
            ELSE IF task.status \notin {"pending", "in_progress"} THEN TaskPreconditionFailed
            ELSE NULL
      [] c.action = "release" ->
            IF task = NoTask THEN TaskNotFound
            ELSE IF task.status # "in_progress" THEN TaskPreconditionFailed
            ELSE NULL
      [] c.action = "complete" ->
            IF task = NoTask THEN TaskNotFound
            ELSE IF task.status = "completed" THEN TaskPreconditionFailed
            ELSE NULL
      [] c.action = "assign" ->
            IF ~_validate_user_exists(c.params.assigned_to) THEN "User not found"
            ELSE IF task = NoTask THEN TaskNotFound
            ELSE IF task.status = "completed" THEN TaskPreconditionFailed
            ELSE NULL

\* what a task activity returns before it writes, NULL when it goes on to the UPDATE;
\* task is the row it read
TaskActivityCheck(c, task) ==
    CASE c.action = "claim" ->
            IF ~_validate_user_exists(c.user_id) THEN "User not found"
            ELSE IF task = NoTask THEN TaskNotFound
            ELSE IF task.assigned_to # NULL /\ task.assigned_to # c.user_id THEN Conflict
            ELSE IF task.status \notin {"pending", "in_progress"} THEN TaskPreconditionFailed
            ELSE NULL
      [] c.action = "release" ->
            IF task = NoTask THEN TaskNotFound
            ELSE IF task.status # "in_progress" THEN TaskPreconditionFailed
            ELSE NULL
      [] c.action = "complete" ->
            IF task = NoTask THEN TaskNotFound
            ELSE IF task.status = "completed" THEN TaskPreconditionFailed
            ELSE NULL
      [] c.action = "assign" ->
            IF ~_validate_user_exists(c.params.assigned_to) THEN "User not found"
            ELSE IF task = NoTask THEN TaskNotFound
            ELSE IF task.status = "completed" THEN TaskPreconditionFailed
            ELSE NULL

\* the status a task activity logs and returns, from the status it read
TaskNewStatus(action, previous_status) ==
    CASE action = "claim" -> "in_progress"
      [] action = "release" -> "pending"
      [] action = "complete" -> "completed"
      [] action = "assign" -> IF previous_status = "pending" THEN "in_progress" ELSE previous_status

\* the UPDATE tasks statement of each task activity, applied to the row as it is
\* when the statement runs
UpdateTaskRow(t, c, now) ==
    CASE c.action = "claim" ->
            [t EXCEPT !.assigned_to = c.user_id, !.assigned_at = now, !.status = "in_progress"]
      [] c.action = "release" ->
            [t EXCEPT !.assigned_to = NULL, !.assigned_by = NULL, !.assigned_at = 0,
                      !.status = "pending"]
      [] c.action = "complete" ->
            [t EXCEPT !.status = "completed", !.completed_at = now,
                      !.completed_by = Email(TaskValidActor(c)),
                      !.resolution_notes = Or(c.params.resolution_notes, @)]
      [] c.action = "assign" ->
            [t EXCEPT !.assigned_to = c.params.assigned_to,
                      !.assigned_by = TaskValidActor(c), !.assigned_at = now,
                      !.status = IF @ = "pending" THEN "in_progress" ELSE @]

\* _log_task_status_change: the row appended to task_status_history
TaskHistoryRow(task_id, previous_status, new_status, changed_by) ==
    [task_id |-> task_id, previous_status |-> previous_status,
     new_status |-> new_status, changed_by |-> changed_by]

\* every task activity logging a row, assign_task_activity included
TaskHistoryRowsAlways(c) ==
    <<TaskHistoryRow(c.task_id, c.task.status, TaskNewStatus(c.action, c.task.status),
                     TaskValidActor(c))>>

\* the rows a task activity appends to task_status_history: assign_task_activity
\* logs only a change of status
TaskHistoryRows(c) ==
    LET new_status == TaskNewStatus(c.action, c.task.status)
    IN IF c.action = "assign" /\ c.task.status = new_status
       THEN <<>>
       ELSE <<TaskHistoryRow(c.task_id, c.task.status, new_status, TaskValidActor(c))>>

\* update_task_status_activity: one UPDATE tasks ... WHERE id
UpdateTaskStatus(t, status, task_notes, workflow_status, now) ==
    IF status = "completed"
    THEN [t EXCEPT !.status = status, !.completed_at = now,
                   !.workflow_status = Or(Or(workflow_status, "COMPLETED"), @),
                   !.resolution_notes = Or(task_notes, @)]
    ELSE [t EXCEPT !.status = status, !.workflow_status = Or(workflow_status, @),
                   !.resolution_notes = Or(task_notes, @)]

\* the INSERT INTO tasks statement of create_workflow_task_activity, for a workflow
\* definition of type document_request with create_task set
WorkflowTask ==
    [NoTask EXCEPT !.task_type = "document_request", !.priority = "medium",
                   !.status = "pending", !.workflow_status = "RUNNING"]

\* the locals of a task workflow execution that has not run its activity yet
TaskCall(task_id, action, user_id, params) ==
    [pc |-> "activity", task_id |-> task_id, action |-> action, user_id |-> user_id,
     params |-> params, task |-> NoTask, result |-> NoTaskResult]

TaskIdle == [TaskCall(1, "claim", SYSTEM_USER_ID, NoTaskParams) EXCEPT !.pc = "idle"]

TaskProcs == 1..NumTaskProcs

\* ------------------------------------------------- "alert created" messages
Messages == 1..NumMessages

\* what a message of aml.alert.created may carry: a JSON object with alert_id, a
\* JSON object without it, JSON that is no object, bytes that are no JSON
Payloads == {"alert", "no_id", "not_object", "not_json"}

Message(payload) == [payload |-> payload, state |-> "pending"]

\* every message of the stream carries its alert and waits for delivery
NoTraffic ==
    /\ msgs = [m \in Messages |-> Message("alert")]
    /\ started = {}
    /\ outages = 0
    /\ request = [body_role |-> NULL, query_role |-> NULL, response |-> "none"]

AlertRow(severity) ==
    [status |-> "open", severity |-> severity,
     assigned_to |-> NULL, assigned_by |-> NULL, assigned_at |-> 0,
     escalated_to |-> NULL, escalated_by |-> NULL, escalated_at |-> 0, escalation_reason |-> NULL,
     resolution_type |-> NULL, resolution_notes |-> NULL, resolved_by |-> NULL, resolved_at |-> 0]

\* the alert has been inserted by its producer (status defaults to open); its
\* "alert created" event has not been consumed yet
Init ==
    /\ alerts \in [{AlertId} -> {AlertRow(s) : s \in Severities}]
    /\ history = [a \in {AlertId, UnknownAlertId} |-> <<>>]
    /\ tasks = <<>>
    /\ notes = <<>>
    /\ clock = 1
    /\ proc = [p \in Procs |-> Idle]
    /\ last = Idle
    /\ reexecs = 0
    /\ task_history = <<>>
    /\ tproc = [p \in TaskProcs |-> TaskIdle]
    /\ tlast = TaskIdle
    /\ NoTraffic

\* the workflow executions that may still append a history row
Writers == { p \in Procs : proc[p].pc \in {"activity", "checked"} }

\* room for one more workflow execution within the bounds
Room == Len(history[AlertId]) + Cardinality(Writers) + (MaxReexec - reexecs) < MaxHistory

\* room for one more call when the calls do not overlap
SeqRoom == Len(history[AlertId]) < MaxSeqHistory

\* the result returned in the last step has been taken by its caller
Taken == last.pc = "idle"

\* room for one more note within the bounds: one per call, and one more for a call
\* delivered again
NotesRoom(c) == Len(notes) < MaxNotes + (IF c.replay THEN 1 ELSE 0)

\* the workflow returns: the caller gets the result
Return(c, result) == [c EXCEPT !.pc = "done", !.result = result, !.existing_task = 0]

\* AlertLifecycleWorkflow.run from its start: the Dispatcher's own checks, then the
\* scheduled activity up to its first write (the SELECT of the status and the guards
\* of a status-changing activity; nothing for init and add_note)
Run(p, c) ==
    LET e == DispatchCheck(c.action, c.user_role, c.params)
        current_status == _get_alert_current_status(c.alert_id)
        f == ActivityCheck(c, current_status)
    IN /\ (c.action # "add_note" \/ NotesRoom(c))
       /\ IF e # NULL
          THEN proc' = proc /\ last' = Return(c, Err(e))
          ELSE IF c.action \notin StatusActions
          THEN proc' = [proc EXCEPT ![p] = c] /\ last' = Idle
          ELSE IF f # NULL
          THEN proc' = proc
               /\ last' = Return([c EXCEPT !.current_status = SeenStatus(c, current_status)], Err(f))
          ELSE proc' = [proc EXCEPT ![p] = [c EXCEPT !.pc = "checked",
                                                     !.current_status = current_status]]
               /\ last' = Idle

\* a caller starts AlertLifecycleWorkflow.run
Dispatch(p) ==
    /\ proc[p].pc = "idle"
    /\ Taken
    /\ \E alert_id \in DispatchAlertIds, action \in Actions, user_id \in Actors :
         \E user_role \in RolesOf(action), params \in ParamsOf(action) :
            Run(p, Call(alert_id, action, user_id, user_role, params, FALSE))
    /\ UNCHANGED <<db, reexecs, pvars, tvars>>

\* the Dispatch call that returned success last is delivered again
Redeliver(p) ==
    /\ proc[p].pc = "idle"
    /\ last.pc = "done"
    /\ last.result.success
    /\ Run(p, Call(last.alert_id, last.action, last.user_id, last.user_role, last.params, TRUE))
    /\ UNCHANGED <<db, reexecs, pvars, tvars>>

\* the workflow gets the result of its first activity: it returns it, or goes on to
\* the task linkage (assign and escalate, on success)
Completed(p, activity_result) ==
    LET c == proc[p]
    IN IF c.action \in {"assign", "escalate"} /\ activity_result.success
       THEN proc' = [proc EXCEPT ![p].pc = "linkage", ![p].activity_result = activity_result]
            /\ last' = Idle
       ELSE proc' = [proc EXCEPT ![p] = Idle] /\ last' = Return(c, activity_result)

\* the activity committed but its completion never reached the facility, which will
\* run the activity again (at-least-once execution)
Lost(p, pc) ==
    /\ reexecs < MaxReexec
    /\ reexecs' = reexecs + 1
    /\ UNCHANGED pvars
    /\ proc' = [proc EXCEPT ![p].pc = pc, ![p].current_status = NULL, ![p].existing_task = 0]
    /\ last' = Idle

\* the history row of an initialisation attributed to the caller
InitRowByCaller(c) == HistoryRow("new", "open", c.user_id)

\* the history row init_alert_activity logs for call c
InitRow(c) == HistoryRow("new", "open", SYSTEM_USER_ID)

\* init_alert_activity: one INSERT into the history, no read of the alert
InitInsert(p) ==
    /\ proc[p].pc = "activity"
    /\ Taken
    /\ proc[p].action = "init"
    /\ history' = [history EXCEPT ![proc[p].alert_id] = _log_status_change(@, InitRow(proc[p]))]
    /\ UNCHANGED <<alerts, tasks, notes, clock, tvars>>

InitActivity(p) == InitInsert(p) /\ Completed(p, Ok("open")) /\ UNCHANGED <<reexecs, pvars>>

InitActivityLost(p) == InitInsert(p) /\ Lost(p, "activity")

\* the row add_alert_note_activity inserts
NoteRow(c) ==
    [alert_id |-> c.alert_id, user_id |-> _get_valid_user_id(c.user_id),
     content |-> c.params.content]

\* an INSERT that leaves alert_notes alone when it holds the same note already
InsertNoteUnlessPresent(rows, row) ==
    IF \E i \in 1..Len(rows) : rows[i] = row THEN rows ELSE Append(rows, row)

\* INSERT INTO alert_notes
InsertNote(rows, row) == Append(rows, row)

\* add_alert_note_activity: one INSERT into alert_notes
AddNoteActivity(p) ==
    /\ proc[p].pc = "activity"
    /\ Taken
    /\ proc[p].action = "add_note"
    /\ notes' = InsertNote(notes, NoteRow(proc[p]))
    /\ Completed(p, [NoResult EXCEPT !.success = TRUE])
    /\ UNCHANGED <<alerts, history, tasks, clock, reexecs, pvars, tvars>>

\* a re-executed status-changing activity up to its UPDATE: the SELECT of the status
\* and the guards
ActivityRead(p) ==
    /\ proc[p].pc = "activity"
    /\ Taken
    /\ proc[p].action \in StatusActions
    /\ LET c == proc[p]
           current_status == _get_alert_current_status(c.alert_id)
           f == ActivityCheck(c, current_status)
       IN IF f = NULL
          THEN proc' = [proc EXCEPT ![p].pc = "checked", ![p].current_status = current_status]
               /\ last' = Idle
          ELSE proc' = [proc EXCEPT ![p] = Idle]
               /\ last' = Return([c EXCEPT !.current_status = SeenStatus(c, current_status)], Err(f))
    /\ UNCHANGED <<db, reexecs, pvars, tvars>>

\* the rest of the activity: UPDATE alerts ... WHERE id, the history INSERT, the commit
Commit(p) ==
    /\ proc[p].pc = "checked"
    /\ Taken
    /\ LET c == proc[p]
           valid_user == ValidActor(c)
       IN /\ alerts' = [alerts EXCEPT ![c.alert_id] = UpdateAlert(@, c, valid_user, clock)]
          /\ history' = [history EXCEPT ![c.alert_id] =
                            _log_status_change(@, HistoryRow(c.current_status, TargetStatus(c.action), valid_user))]
    /\ clock' = clock + 1
    /\ UNCHANGED <<tasks, notes, tvars>>

ActivityWrite(p) ==
    Commit(p) /\ Completed(p, Ok(TargetStatus(proc[p].action))) /\ UNCHANGED <<reexecs, pvars>>

ActivityWriteLost(p) == Commit(p) /\ Lost(p, "activity")

\* create_task_from_alert_activity up to its write: the two SELECTs
LinkRead(p) ==
    /\ proc[p].pc = "linkage"
    /\ Taken
    /\ proc' = [proc EXCEPT ![p].pc = "linkread",
                            ![p].existing_task = ExistingTask(proc[p].alert_id)]
    /\ last' = Idle
    /\ UNCHANGED <<db, reexecs, pvars, tvars>>

\* what create_task_from_alert_activity returns, merged into the workflow's result
LinkResult(c) ==
    IF c.existing_task # 0
    THEN [c.activity_result EXCEPT !.task_id = c.existing_task, !.task_action = "updated"]
    ELSE [c.activity_result EXCEPT !.task_id = Len(tasks) + 1, !.task_action = "created"]

\* the rest of it: UPDATE of the task found, or INSERT of a new one, and the commit
LinkCommit(p) ==
    /\ proc[p].pc = "linkread"
    /\ Taken
    /\ LET c == proc[p]
           severity == alerts[c.alert_id].severity
       IN tasks' = IF c.existing_task # 0
                   THEN [tasks EXCEPT ![c.existing_task] = UpdateTask(@, c, severity, clock)]
                   ELSE Append(tasks, NewTask(c.alert_id, c, severity, clock))
    /\ clock' = clock + 1
    /\ UNCHANGED <<alerts, history, notes, tvars>>

LinkWrite(p) ==
    /\ LinkCommit(p)
    /\ proc' = [proc EXCEPT ![p] = Idle]
    /\ last' = Return(proc[p], LinkResult(proc[p]))
    /\ UNCHANGED <<reexecs, pvars>>

LinkWriteLost(p) == LinkCommit(p) /\ Lost(p, "linkage")

\* the caller takes the result of the workflow execution that returned
TakeResult ==
    /\ last.pc = "done"
    /\ last' = Idle
    /\ UNCHANGED <<db, proc, reexecs, pvars, tvars>>

Next ==
    \/ TakeResult
    \/ \E p \in Procs :
        \/ Room /\ Dispatch(p)
        \/ InitActivity(p)
        \/ InitActivityLost(p)
        \/ AddNoteActivity(p)
        \/ ActivityRead(p)
        \/ ActivityWrite(p)
        \/ ActivityWriteLost(p)
        \/ LinkRead(p)
        \/ LinkWrite(p)
        \/ LinkWriteLost(p)

\* workflow executions running concurrently, activities re-executed by the facility
Spec == Init /\ [][Next]_vars

Quiet(p) == \A q \in Procs \ {p} : proc[q].pc = "idle"
AllProcsIdle == \A q \in Procs : proc[q].pc = "idle"

SeqNext ==
    \/ TakeResult
    \/ \E p \in Procs :
        \/ Quiet(p) /\ SeqRoom /\ Dispatch(p)
        \/ Quiet(p) /\ SeqRoom /\ Redeliver(p)
        \/ Quiet(p) /\ InitActivity(p)
        \/ Quiet(p) /\ AddNoteActivity(p)
        \/ Quiet(p) /\ ActivityWrite(p)
        \/ Quiet(p) /\ LinkRead(p)
        \/ Quiet(p) /\ LinkWrite(p)

\* Dispatch calls that do not overlap (re-deliveries included), every activity
\* executed once
SeqSpec == Init /\ [][SeqNext]_vars

\* ------------------------------------------------ task workflow executions
\* the task workflow executions that may still write
TaskWriters == { p \in TaskProcs : tproc[p].pc = "checked" }

\* room for one more task workflow execution within the bounds
TaskRoom == clock + Cardinality(TaskWriters) < MaxTaskClock

\* the result returned in the last step has been taken by its caller
TaskTaken == tlast.pc = "idle"

TaskReturn(c, result) == [c EXCEPT !.pc = "done", !.result = result]

\* the row a task activity has read when it returns or writes: claim_task_activity
\* and assign_task_activity validate the user before they read the task
TaskSeen(c, task) ==
    IF \/ c.action = "claim" /\ ~_validate_user_exists(c.user_id)
       \/ c.action = "assign" /\ ~_validate_user_exists(c.params.assigned_to)
    THEN NoTask ELSE task

\* TaskLifecycleWorkflow.run from its start: the Dispatcher's own checks, then the
\* scheduled activity up to its UPDATE (the SELECT of the task and the guards)
TaskRun(p, c) ==
    LET e == TaskDispatchCheck(c.action, c.params)
        task == GetTask(c.task_id)
        f == TaskActivityCheck(c, task)
    IN IF e # NULL
       THEN tproc' = tproc /\ tlast' = TaskReturn(c, TaskErr(e))
       ELSE IF f # NULL
       THEN tproc' = tproc
            /\ tlast' = TaskReturn([c EXCEPT !.task = TaskSeen(c, task)], TaskErr(f))
       ELSE tproc' = [tproc EXCEPT ![p] = [c EXCEPT !.pc = "checked", !.task = task]]
            /\ tlast' = TaskIdle

\* a caller starts TaskLifecycleWorkflow.run
TaskDispatch(p) ==
    /\ tproc[p].pc = "idle"
    /\ \A q \in TaskProcs : q < p => tproc[q].pc # "idle"
    /\ TaskTaken /\ Taken
    /\ TaskRoom
    /\ \E task_id \in TaskDispatchIds, action \in TaskActions, user_id \in TaskActors :
         \E params \in TaskParamsOf(action) :
            TaskRun(p, TaskCall(task_id, action, user_id, params))
    /\ UNCHANGED <<db, proc, last, reexecs, pvars, task_history>>

\* the assignee a task activity returns
TaskResultAssignee(c) ==
    CASE c.action = "claim" -> c.user_id
      [] c.action = "assign" -> c.params.assigned_to
      [] OTHER -> NULL

\* the rest of the task activity: UPDATE tasks ... WHERE id, the history INSERT, the
\* commit; the workflow returns the activity's result
TaskWrite(p) ==
    /\ tproc[p].pc = "checked"
    /\ TaskTaken /\ Taken
    /\ LET c == tproc[p]
       IN /\ tasks' = [tasks EXCEPT ![c.task_id] = UpdateTaskRow(@, c, clock)]
          /\ task_history' = _log_task_status_change(task_history, TaskHistoryRows(c))
          /\ tlast' = TaskReturn(c, TaskOk(TaskNewStatus(c.action, c.task.status),
                                           TaskResultAssignee(c)))
    /\ clock' = clock + 1
    /\ tproc' = [tproc EXCEPT ![p] = TaskIdle]
    /\ UNCHANGED <<alerts, history, notes, proc, last, reexecs, pvars>>

\* the caller takes the result of the task workflow execution that returned
TakeTaskResult ==
    /\ tlast.pc = "done"
    /\ tlast' = TaskIdle
    /\ UNCHANGED <<db, proc, last, reexecs, pvars, task_history, tproc>>

\* create_workflow_task_activity, run by a DocumentRequestWorkflow started from a
\* workflow definition: the task it tracks
CreateWorkflowTask ==
    /\ Len(tasks) < MaxTasks
    /\ \A p \in Procs : proc[p].pc = "idle"
    /\ TaskTaken /\ Taken
    /\ tasks' = Append(tasks, WorkflowTask)
    /\ UNCHANGED <<alerts, history, notes, clock, proc, last, reexecs, pvars, tvars>>

\* update_task_status_activity, run by that workflow once its document request is
\* out: the task goes (back) to pending, the workflow waits
UpdateTaskStatusActivity ==
    /\ TaskTaken /\ Taken
    /\ \E task_id \in 1..Len(tasks), status \in UpdateStatusInputs :
         /\ tasks[task_id].workflow_status = "RUNNING"
         /\ tasks' = [tasks EXCEPT ![task_id] =
                         UpdateTaskStatus(@, status, "Document requested", "WAITING", clock)]
    /\ UNCHANGED <<alerts, history, notes, clock, proc, last, reexecs, pvars, tvars>>

\* assign Dispatch calls on the alert, for the task linkage they run
DispatchAssign(p) ==
    /\ proc[p].pc = "idle"
    /\ \A q \in Procs : q < p => proc[q].pc # "idle"
    /\ Taken /\ TaskTaken
    /\ Len(tasks) < MaxTasks
    /\ Len(history[AlertId]) + Cardinality(Writers) < MaxTaskAlertHistory
    /\ \E user_id \in Actors, params \in ParamsOf("assign") :
          Run(p, Call(AlertId, "assign", user_id, "analyst", params, FALSE))
    /\ UNCHANGED <<db, reexecs, pvars, tvars>>

TaskNext ==
    \/ TakeResult
    \/ TakeTaskResult
    \/ CreateWorkflowTask
    \/ UpdateTaskStatusActivity
    \/ \E p \in TaskProcs :
        \/ TaskDispatch(p)
        \/ TaskWrite(p)
    \/ \E p \in Procs :
        \/ DispatchAssign(p)
        \/ TaskTaken /\ ActivityWrite(p)
        \/ TaskTaken /\ LinkRead(p)
        \/ TaskTaken /\ LinkWrite(p)
        \/ TaskTaken /\ LinkWriteLost(p)

\* task workflow executions running concurrently with each other, with the workflow
\* that creates a task and with the task linkage of alert assignments
TaskSpec == Init /\ [][TaskNext]_vars

TaskQuiet(p) == \A q \in TaskProcs \ {p} : tproc[q].pc = "idle"
AllTaskQuiet == \A q \in TaskProcs : tproc[q].pc = "idle"

TaskSeqNext ==
    \/ TakeTaskResult
    \/ CreateWorkflowTask
    \/ AllTaskQuiet /\ UpdateTaskStatusActivity
    \/ \E p \in TaskProcs :
        \/ TaskQuiet(p) /\ TaskDispatch(p)
        \/ TaskQuiet(p) /\ TaskWrite(p)

\* task activities that do not overlap
TaskSeqSpec == Init /\ [][TaskSeqNext]_vars

\* ------------------------------------------- calls on ids that do not exist
\* a caller starts AlertLifecycleWorkflow.run with the id of no alert
DispatchUnknown(p) ==
    /\ proc[p].pc = "idle"
    /\ Quiet(p)
    /\ Taken /\ TaskTaken
    /\ Len(history[UnknownAlertId]) < MaxUnknownRows
    /\ \E action \in Actions, user_id \in Actors :
         \E user_role \in RolesOf(action), params \in ParamsOf(action) :
            Run(p, Call(UnknownAlertId, action, user_id, user_role, params, FALSE))
    /\ UNCHANGED <<db, reexecs, pvars, tvars>>

\* the INSERT of init_alert_activity or add_alert_note_activity raises, in a store
\* that holds its alert_id to the rows of alerts: the transaction is rolled back and
\* the activity fails
InsertRejected(p) ==
    /\ proc[p].pc = "activity"
    /\ Taken /\ TaskTaken
    /\ proc[p].action \in {"init", "add_note"}
    /\ proc[p].alert_id \notin DOMAIN alerts
    /\ proc' = [proc EXCEPT ![p].pc = "failed"]
    /\ UNCHANGED <<db, last, reexecs, pvars, tvars>>

\* the facility runs the failed activity again: execute_activity is given no retry
\* policy, so the default one applies
ActivityRetry(p) ==
    /\ proc[p].pc = "failed"
    /\ proc' = [proc EXCEPT ![p].pc = "activity"]
    /\ UNCHANGED <<db, last, reexecs, pvars, tvars>>

UnknownNext ==
    \/ TakeResult
    \/ TakeTaskResult
    \/ \E p \in Procs :
        \/ DispatchUnknown(p)
        \/ TaskTaken /\ InitActivity(p)
        \/ TaskTaken /\ AddNoteActivity(p)
        \/ InsertRejected(p)
        \/ ActivityRetry(p)
    \/ \E p \in TaskProcs : AllProcsIdle /\ TaskDispatch(p)

\* calls, one at a time, on alert and task ids that do not exist
UnknownSpec == Init /\ [][UnknownNext]_vars

\* ------------------------------------------------- activities that raise
\* a store that commits each statement as it runs
RollbackAutocommit(committed, uncommitted) == uncommitted

\* what the store holds after an activity raised inside `async with pool.connection()`:
\* the pool's connections are not in autocommit, the block rolls its transaction back
Rollback(committed, uncommitted) == committed

\* room for one more call on the alert when activities may raise
FailRoom == Len(history[AlertId]) < MaxFailHistory

\* the activity of init or add_note, or a status-changing activity run again, raises
\* before its first statement (the store cannot be reached)
ActivityUnavailable(p) ==
    /\ proc[p].pc = "activity"
    /\ Taken /\ TaskTaken
    /\ proc' = [proc EXCEPT ![p].pc = "failed"]
    /\ UNCHANGED <<db, last, reexecs, pvars, tvars>>

\* a status-changing activity raises after its UPDATE of the alert and before the
\* history INSERT
ActivityCrash(p) ==
    /\ proc[p].pc = "checked"
    /\ Taken /\ TaskTaken
    /\ LET c == proc[p]
       IN alerts' = [alerts EXCEPT ![c.alert_id] =
                        Rollback(@, UpdateAlert(@, c, ValidActor(c), clock))]
    /\ proc' = [proc EXCEPT ![p].pc = "failed", ![p].current_status = NULL]
    /\ UNCHANGED <<history, tasks, notes, clock, last, reexecs, pvars, tvars>>

\* create_task_from_alert_activity raises after its UPDATE or INSERT of the task
LinkCrash(p) ==
    /\ proc[p].pc = "linkread"
    /\ Taken /\ TaskTaken
    /\ LET c == proc[p]
           severity == alerts[c.alert_id].severity
       IN tasks' = Rollback(tasks,
                            IF c.existing_task # 0
                            THEN [tasks EXCEPT ![c.existing_task] = UpdateTask(@, c, severity, clock)]
                            ELSE Append(tasks, NewTask(c.alert_id, c, severity, clock)))
    /\ proc' = [proc EXCEPT ![p].pc = "linkfailed", ![p].existing_task = 0]
    /\ UNCHANGED <<alerts, history, notes, clock, last, reexecs, pvars, tvars>>

\* the facility runs the failed create_task_from_alert_activity again
LinkRetry(p) ==
    /\ proc[p].pc = "linkfailed"
    /\ proc' = [proc EXCEPT ![p].pc = "linkage"]
    /\ UNCHANGED <<db, last, reexecs, pvars, tvars>>

\* a task activity raises after its UPDATE of the task and before the history INSERT
TaskCrash(p) ==
    /\ tproc[p].pc = "checked"
    /\ TaskTaken /\ Taken
    /\ LET c == tproc[p]
       IN tasks' = [tasks EXCEPT ![c.task_id] = Rollback(@, UpdateTaskRow(@, c, clock))]
    /\ tproc' = [tproc EXCEPT ![p].pc = "failed", ![p].task = NoTask]
    /\ UNCHANGED <<alerts, history, notes, clock, proc, last, reexecs, pvars, task_history, tlast>>

\* the facility runs the failed task activity again, up to its UPDATE
TaskRetry(p) ==
    /\ tproc[p].pc = "failed"
    /\ TaskTaken /\ Taken
    /\ LET c == tproc[p]
           task == GetTask(c.task_id)
           f == TaskActivityCheck(c, task)
       IN IF f # NULL
          THEN /\ tproc' = [tproc EXCEPT ![p] = TaskIdle]
               /\ tlast' = TaskReturn([c EXCEPT !.task = TaskSeen(c, task)], TaskErr(f))
          ELSE /\ tproc' = [tproc EXCEPT ![p].pc = "checked", ![p].task = task]
               /\ tlast' = TaskIdle
    /\ UNCHANGED <<db, proc, last, reexecs, pvars, task_history>>

FailNext ==
    \/ TakeResult
    \/ TakeTaskResult
    \/ AllProcsIdle /\ AllTaskQuiet /\ CreateWorkflowTask
    \/ \E p \in Procs :
        \/ Quiet(p) /\ AllTaskQuiet /\ FailRoom /\ Dispatch(p)
        \/ TaskTaken /\ InitActivity(p)
        \/ TaskTaken /\ AddNoteActivity(p)
        \/ TaskTaken /\ ActivityRead(p)
        \/ TaskTaken /\ ActivityWrite(p)
        \/ TaskTaken /\ LinkRead(p)
        \/ TaskTaken /\ LinkWrite(p)
        \/ ActivityUnavailable(p)
        \/ ActivityCrash(p)
        \/ ActivityRetry(p)
        \/ LinkCrash(p)
        \/ LinkRetry(p)
    \/ \E p \in TaskProcs :
        \/ TaskQuiet(p) /\ AllProcsIdle /\ TaskDispatch(p)
        \/ TaskWrite(p)
        \/ TaskCrash(p)
        \/ TaskRetry(p)

\* calls that do not overlap, on the alert and on tasks, whose activities may raise
\* and are run again by the facility
FailSpec == Init /\ [][FailNext]_vars

\* the facility and the callers keep going: a scheduled activity is run, a failed one
\* is run again, a result returned is taken; nothing makes an activity stop raising
FailFairness ==
    /\ WF_vars(TakeResult)
    /\ WF_vars(TakeTaskResult)
    /\ \A p \in Procs :
        /\ WF_vars(InitActivity(p))
        /\ WF_vars(AddNoteActivity(p))
        /\ WF_vars(ActivityRead(p))
        /\ WF_vars(ActivityWrite(p))
        /\ WF_vars(LinkRead(p))
        /\ WF_vars(LinkWrite(p))
        /\ WF_vars(ActivityRetry(p))
        /\ WF_vars(LinkRetry(p))
    /\ \A p \in TaskProcs :
        /\ WF_vars(TaskWrite(p))
        /\ WF_vars(TaskRetry(p))

FailLiveSpec == FailSpec /\ FailFairness

\* ------------------------------------------- calls by an actor that is no user
\* a caller starts AlertLifecycleWorkflow.run with a user_id that users does not hold
DispatchGhost(p) ==
    /\ proc[p].pc = "idle"
    /\ Quiet(p)
    /\ Taken /\ TaskTaken
    /\ Len(history[AlertId]) < MaxGhostHistory
    /\ \E action \in Actions :
         \E user_role \in RolesOf(action), params \in ParamsOf(action) :
            Run(p, Call(AlertId, action, Ghost, user_role, params, FALSE))
    /\ UNCHANGED <<db, reexecs, pvars, tvars>>

GhostNext ==
    \/ TakeResult
    \/ \E p \in Procs :
        \/ DispatchGhost(p)
        \/ TaskTaken /\ InitActivity(p)
        \/ TaskTaken /\ AddNoteActivity(p)
        \/ TaskTaken /\ ActivityWrite(p)
        \/ TaskTaken /\ LinkRead(p)
        \/ TaskTaken /\ LinkWrite(p)

\* calls on the alert that do not overlap, all by an actor that is no user
GhostSpec == Init /\ [][GhostNext]_vars

\* ----------------------------------- the task linkage by alert severity
\* the severities of the alerts the linkage runs on: alerts.severity is free text
LinkSeverities == {NULL, "critical", "CRITICAL", "High", "medium", "Low", "info"}
LinkActions == {"assign", "start", "escalate", "resume"}
LinkAssignees == {"u1", "u2"}

LinkParamsOf(action) ==
    CASE action = "assign" -> { [NoParams EXCEPT !.assigned_to = t] : t \in LinkAssignees }
      [] action = "escalate" -> { [NoParams EXCEPT !.escalated_to = t] : t \in EscalationTargets }
      [] OTHER -> {NoParams}

LinkInit ==
    /\ alerts \in [{AlertId} -> {AlertRow(s) : s \in LinkSeverities}]
    /\ history = [a \in {AlertId, UnknownAlertId} |-> <<>>]
    /\ tasks = <<>>
    /\ notes = <<>>
    /\ clock = 1
    /\ proc = [p \in Procs |-> Idle]
    /\ last = Idle
    /\ reexecs = 0
    /\ task_history = <<>>
    /\ tproc = [p \in TaskProcs |-> TaskIdle]
    /\ tlast = TaskIdle
    /\ NoTraffic

\* a caller starts AlertLifecycleWorkflow.run with an action of the assignment and
\* escalation path
DispatchLinked(p) ==
    /\ proc[p].pc = "idle"
    /\ Taken /\ TaskTaken
    /\ Len(history[AlertId]) < MaxLinkHistory
    /\ \E action \in LinkActions, user_id \in Actors :
         \E params \in LinkParamsOf(action) :
            Run(p, Call(AlertId, action, user_id, "analyst", params, FALSE))
    /\ UNCHANGED <<db, reexecs, pvars, tvars>>

\* a caller starts TaskLifecycleWorkflow.run to complete a task of the alert
DispatchComplete(p) ==
    /\ tproc[p].pc = "idle"
    /\ TaskTaken /\ Taken
    /\ \E task_id \in 1..Len(tasks), user_id \in Actors :
         TaskRun(p, TaskCall(task_id, "complete", user_id, NoTaskParams))
    /\ UNCHANGED <<db, proc, last, reexecs, pvars, task_history>>

LinkNext ==
    \/ TakeResult
    \/ TakeTaskResult
    \/ \E p \in Procs :
        \/ Quiet(p) /\ AllTaskQuiet /\ DispatchLinked(p)
        \/ TaskTaken /\ ActivityWrite(p)
        \/ TaskTaken /\ LinkRead(p)
        \/ TaskTaken /\ LinkWrite(p)
    \/ \E p \in TaskProcs :
        \/ TaskQuiet(p) /\ AllProcsIdle /\ DispatchComplete(p)
        \/ TaskWrite(p)

\* assignments and escalations of alerts of every severity, one call at a time,
\* with the completion of the linked tasks in between
LinkSpec == LinkInit /\ [][LinkNext]_vars

\* ------------------------------------------------------ alert processor
\* a processor that acknowledges whatever start_alert_workflow returned
DispositionAckAlways(payload, success) == "acked"

\* process_messages: what the message gets after start_alert_workflow returned
\* (ack on success, nak for redelivery otherwise), or when its bytes are no JSON
Disposition(payload, success) ==
    IF payload = "not_json" THEN "acked"
    ELSE IF success THEN "acked" ELSE "nak"

ProcInit ==
    /\ alerts \in [{AlertId} -> {AlertRow(s) : s \in Severities}]
    /\ history = [a \in {AlertId, UnknownAlertId} |-> <<>>]
    /\ tasks = <<>>
    /\ notes = <<>>
    /\ clock = 1
    /\ proc = [p \in Procs |-> Idle]
    /\ last = Idle
    /\ reexecs = 0
    /\ task_history = <<>>
    /\ tproc = [p \in TaskProcs |-> TaskIdle]
    /\ tlast = TaskIdle
    /\ msgs \in [Messages -> {Message(k) : k \in Payloads}]
    /\ started = {}
    /\ outages = 0
    /\ request = [body_role |-> NULL, query_role |-> NULL, response |-> "none"]

\* sub.fetch hands the message to the processing loop
Fetch(m) ==
    /\ msgs[m].state = "pending"
    /\ msgs' = [msgs EXCEPT ![m].state = "fetched"]
    /\ UNCHANGED <<db, proc, last, reexecs, tvars, started, outages, request>>

\* start_alert_workflow starts the init workflow of the alert; the message is
\* acknowledged
StartWorkflowOk(m) ==
    /\ msgs[m].state = "fetched"
    /\ msgs[m].payload = "alert"
    /\ started' = started \cup {m}
    /\ msgs' = [msgs EXCEPT ![m].state = Disposition(msgs[m].payload, TRUE)]
    /\ UNCHANGED <<db, proc, last, reexecs, tvars, outages, request>>

\* start_alert_workflow returns success False: the payload has no alert_id, or
\* start_workflow raised
StartWorkflowFails(m) ==
    /\ msgs[m].state = "fetched"
    /\ \/ msgs[m].payload = "no_id" /\ UNCHANGED outages
       \/ msgs[m].payload = "alert" /\ outages < MaxOutages /\ outages' = outages + 1
    /\ msgs' = [msgs EXCEPT ![m].state = Disposition(msgs[m].payload, FALSE)]
    /\ UNCHANGED <<db, proc, last, reexecs, tvars, started, request>>

\* json.loads raises JSONDecodeError: the message is acknowledged
InvalidJson(m) ==
    /\ msgs[m].state = "fetched"
    /\ msgs[m].payload = "not_json"
    /\ msgs' = [msgs EXCEPT ![m].state = Disposition(msgs[m].payload, FALSE)]
    /\ UNCHANGED <<db, proc, last, reexecs, tvars, started, outages, request>>

\* alert_data.get raises on JSON that is no object: the loop over the batch is left
\* for the handler of the outer try, and every message fetched and not yet
\* processed stays without ack or nak
BatchAbandoned(m) ==
    /\ msgs[m].state = "fetched"
    /\ msgs[m].payload = "not_object"
    /\ msgs' = [n \in Messages |->
                 IF msgs[n].state = "fetched" THEN [msgs[n] EXCEPT !.state = "unacked"]
                 ELSE msgs[n]]
    /\ UNCHANGED <<db, proc, last, reexecs, tvars, started, outages, request>>

\* the stream delivers the message again: after the delay of the nak, or after
\* ack_wait without an acknowledgement
RedeliverMessage(m) ==
    /\ msgs[m].state \in {"nak", "unacked"}
    /\ msgs' = [msgs EXCEPT ![m].state = "pending"]
    /\ UNCHANGED <<db, proc, last, reexecs, tvars, started, outages, request>>

ProcNext ==
    \E m \in Messages :
        \/ Fetch(m)
        \/ StartWorkflowOk(m)
        \/ StartWorkflowFails(m)
        \/ InvalidJson(m)
        \/ BatchAbandoned(m)
        \/ RedeliverMessage(m)

\* the alert processor consuming the messages of aml.alert.created
ProcSpec == ProcInit /\ [][ProcNext]_vars

\* the loop keeps fetching, the stream keeps redelivering what was not acknowledged,
\* and a message delivered again and again is processed with the facility available
ProcFairness ==
    \A m \in Messages :
        /\ WF_vars(Fetch(m))
        /\ WF_vars(RedeliverMessage(m))
        /\ WF_vars(InvalidJson(m))
        /\ SF_vars(StartWorkflowOk(m))

ProcLiveSpec == ProcSpec /\ ProcFairness

\* --------------------------------------------------- reopen requests
\* the role a request may declare, in its body or in its query string (NULL: none)
DeclaredRoles == {NULL, "analyst", "manager", "admin"}

\* _get_user_context: the role of the body unless it is "analyst", else the role of
\* the query string
_get_user_context(body_role, query_role) ==
    IF body_role # "analyst" THEN body_role ELSE query_role

\* POST /alerts/{id}/reopen: AlertActionRequest.current_user_role defaults to
\* "analyst", the query parameter current_user_role to "manager"; 403 unless the
\* role is manager or admin, else the Dispatch call
reopen_alert(p) ==
    /\ proc[p].pc = "idle"
    /\ Taken /\ TaskTaken
    /\ request.response = "none"
    /\ Len(history[AlertId]) < MaxApiHistory
    /\ \E body_role \in DeclaredRoles, query_role \in DeclaredRoles, user_id \in Actors :
         LET role == _get_user_context(Or(body_role, "analyst"), Or(query_role, "manager"))
             declared == [body_role |-> body_role, query_role |-> query_role, response |-> "none"]
         IN IF role \notin {"manager", "admin"}
            THEN /\ request' = [declared EXCEPT !.response = "403"]
                 /\ UNCHANGED <<proc, last>>
            ELSE /\ request' = [declared EXCEPT !.response = "dispatched"]
                 /\ \E params \in ParamsOf("reopen") :
                       Run(p, Call(AlertId, "reopen", user_id, role, params, FALSE))
    /\ UNCHANGED <<db, reexecs, tvars, msgs, started, outages>>

\* the response of the request is sent
Respond ==
    /\ request.response # "none"
    /\ AllProcsIdle
    /\ Taken
    /\ request' = [body_role |-> NULL, query_role |-> NULL, response |-> "none"]
    /\ UNCHANGED <<db, proc, last, reexecs, tvars, msgs, started, outages>>

ApiNext ==
    \/ TakeResult
    \/ Respond
    \/ \E p \in Procs :
        \/ /\ Quiet(p) /\ request.response = "none"
           /\ Len(history[AlertId]) < MaxApiHistory
           /\ Dispatch(p)
        \/ Quiet(p) /\ reopen_alert(p)
        \/ InitActivity(p)
        \/ AddNoteActivity(p)
        \/ ActivityWrite(p)
        \/ LinkRead(p)
        \/ LinkWrite(p)

\* reopen requests through the API among Dispatch calls, one call at a time
ApiSpec == Init /\ [][ApiNext]_vars

\* ------------------------------------------ calls that name any action
\* action names the Dispatchers have no branch for
UnknownActions == {"archive"}

\* a caller starts AlertLifecycleWorkflow.run with any action name
DispatchAnyAction(p) ==
    /\ proc[p].pc = "idle"
    /\ Taken /\ TaskTaken
    /\ Len(history[AlertId]) < MaxRejectHistory
    /\ \E action \in Actions \cup UnknownActions, user_id \in Actors :
         \E user_role \in RolesOf(action), params \in ParamsOf(action) :
            Run(p, Call(AlertId, action, user_id, user_role, params, FALSE))
    /\ UNCHANGED <<db, reexecs, pvars, tvars>>

\* a caller starts TaskLifecycleWorkflow.run with any action name
TaskDispatchAnyAction(p) ==
    /\ tproc[p].pc = "idle"
    /\ TaskTaken /\ Taken
    /\ clock < MaxRejectClock
    /\ \E task_id \in TaskDispatchIds, action \in TaskActions \cup UnknownActions :
         \E user_id \in TaskActors, params \in TaskParamsOf(action) :
            TaskRun(p, TaskCall(task_id, action, user_id, params))
    /\ UNCHANGED <<db, proc, last, reexecs, pvars, task_history>>

RejectNext ==
    \/ TakeResult
    \/ TakeTaskResult
    \/ \E p \in Procs :
        \/ Quiet(p) /\ AllTaskQuiet /\ DispatchAnyAction(p)
        \/ TaskTaken /\ InitActivity(p)
        \/ TaskTaken /\ AddNoteActivity(p)
        \/ TaskTaken /\ ActivityWrite(p)
        \/ TaskTaken /\ LinkRead(p)
        \/ TaskTaken /\ LinkWrite(p)
    \/ \E p \in TaskProcs :
        \/ TaskQuiet(p) /\ AllProcsIdle /\ TaskDispatchAnyAction(p)
        \/ TaskWrite(p)

\* calls on the alert and on its tasks, one at a time, that may name an action the
\* Dispatchers do not know or leave a required parameter out
RejectSpec == Init /\ [][RejectNext]_vars

\* ====================================================================
\* Properties
\* ====================================================================

\* the transition table the properties are stated against, per action: the
\* <<from, to>> rows
TableRows(action) ==
    CASE action = "assign" -> { <<"open", "assigned">> }
      [] action = "start" -> { <<"assigned", "in_progress">> }
      [] action = "unassign" -> { <<"assigned", "open">> }
      [] action = "escalate" -> { <<"in_progress", "escalated">> }
      [] action = "hold" -> { <<"in_progress", "on_hold">> }
      [] action = "resolve" -> { <<"in_progress", "resolved">>, <<"escalated", "resolved">>,
                                 <<"on_hold", "resolved">> }
      [] action = "resume" -> { <<"escalated", "in_progress">>, <<"on_hold", "in_progress">> }
      [] action = "reopen" -> { <<"resolved", "open">> }
      [] OTHER -> {}

ValidFrom(action, status) == \E r \in TableRows(action) : r[1] = status

Status == alerts[AlertId].status
AllIdle == \A p \in Procs : proc[p].pc = "idle"
Returned == last.pc = "done"

\* C1: with Dispatch calls that do not overlap, every change of the alert's status is
\* the write of a status-changing action and follows a row of the transition table
\* for that action; a status-changing call that returns success has seen the from
\* status of such a row and leaves the alert in its to status.
C1_SuccessFollowsTable ==
    [][ /\ Status' # Status =>
             \E p \in Procs : /\ proc[p].pc = "checked"
                              /\ proc'[p].pc # "checked"
                              /\ <<Status, Status'>> \in TableRows(proc[p].action)
        /\ \A p \in Procs :
             (proc[p].pc = "checked" /\ proc'[p].pc # "checked")
                => <<Status, Status'>> \in TableRows(proc[p].action)
        /\ (last'.pc = "done" /\ last'.result.success /\ last'.action \in StatusActions)
             => /\ <<last'.current_status, last'.result.status>> \in TableRows(last'.action)
                /\ Status' = last'.result.status
      ]_vars

C1_Witness ==
    /\ Returned /\ last.result.success /\ last.action = "reopen"
    /\ Status = "open"
    /\ Len(history[AlertId]) >= 4

\* C2: a status-changing action dispatched on an alert whose status is not a from
\* status of that action in the table returns success=false in that very step,
\* which changes no alert column, no history row, no task and no note, and never
\* gets to its UPDATE.
C2_InvalidActionRejected ==
    [][ AllIdle =>
          /\ (last'.pc = "done" /\ last'.action \in StatusActions
                /\ ~ValidFrom(last'.action, Status))
               => /\ ~last'.result.success
                  /\ last'.result.error # NULL
                  /\ (last'.current_status # NULL => last'.result.error = PreconditionFailed)
                  /\ UNCHANGED db
                  /\ proc' = proc
          /\ \A p \in Procs :
               (proc'[p].pc = "checked") => ValidFrom(proc'[p].action, Status)
      ]_vars

C2_Witness ==
    /\ Returned /\ last.action = "escalate" /\ Status = "on_hold"
    /\ ~last.result.success /\ last.result.error = PreconditionFailed

\* C3: the history row appended last has new_status equal to the alert's status.
C3_LastRowIsStatus ==
    LET h == history[AlertId]
    IN Len(h) > 0 => h[Len(h)].new_status = Status

\* C4: the history rows form a path through the transition graph: the first row is
\* new->open, no later row starts from new, every later row is a row of the table
\* and starts from the status the row before it ended in.
C4_HistoryIsPath ==
    LET h == history[AlertId]
    IN /\ Len(h) > 0 => (h[1].previous_status = "new" /\ h[1].new_status = "open")
       /\ \A i \in 2..Len(h) :
            /\ h[i].previous_status # "new"
            /\ <<h[i].previous_status, h[i].new_status>> \in ALERT_STATUS_TRANSITIONS
            /\ h[i].previous_status = h[i-1].new_status

\* C5: the status check and the mutation of an activity are one atomic step: the
\* status an activity overwrites is the status it checked, as in every serial order
\* of the activities (so of two activities that require the same status, the one
\* that writes second does not write at all).
C5_CheckAndMutationAtomic ==
    [][ \A p \in Procs :
          (proc[p].pc = "checked" /\ proc'[p].pc # "checked")
             => Status = proc[p].current_status
      ]_vars

\* C6: a status-changing call delivered again to an alert that is already in the
\* action's target status returns success=true.
C6_ReplayReturnsSuccess ==
    (Returned /\ last.replay /\ last.action \in StatusActions
       /\ last.current_status = TargetStatus(last.action))
      => last.result.success

C8_ReopenRoleGate ==
    [][ /\ (last'.pc = "done" /\ last'.action = "reopen"
              /\ last'.user_role \notin {"manager", "admin"})
             => /\ ~last'.result.success
                /\ last'.current_status = NULL
                /\ UNCHANGED db
                /\ proc' = proc
        /\ \A p \in Procs :
             (proc'[p].pc # "idle" /\ proc'[p].action = "reopen")
                => proc'[p].user_role \in {"manager", "admin"}
        /\ (last'.pc = "done" /\ last'.action = "reopen"
              /\ last'.user_role \in {"manager", "admin"} /\ Status = "resolved")
             => (last'.result.success /\ Status' = "open")
      ]_vars

C8_Witness ==
    /\ Returned /\ last.action = "reopen" /\ last.user_role = "analyst"
    /\ ~last.result.success
    /\ Status = "resolved"

\* the tasks linked to an alert
TasksOf(ts, alert_id) == { i \in 1..Len(ts) : ts[i].alert_id = alert_id }
OpenTasksOf(ts, alert_id) ==
    { i \in TasksOf(ts, alert_id) : ts[i].status \in {"pending", "in_progress"} }

\* C9: the task linkage of a successful assign creates exactly one task linked to
\* the alert when the alert has no pending or in_progress task, and otherwise
\* updates one such task in place, the number of tasks unchanged; the call returns
\* success.
C9_AssignCreatesOrUpdatesOneTask ==
    [][ \A p \in Procs :
          (proc[p].pc = "linkread" /\ proc[p].action = "assign" /\ proc'[p].pc = "idle")
            => /\ last'.pc = "done" /\ last'.result.success
               /\ IF OpenTasksOf(tasks, proc[p].alert_id) = {}
                  THEN /\ Len(tasks') = Len(tasks) + 1
                       /\ SubSeq(tasks', 1, Len(tasks)) = tasks
                       /\ tasks'[Len(tasks')].alert_id = proc[p].alert_id
                       /\ tasks'[Len(tasks')].assigned_to = AssignedTo(proc[p])
                       /\ last'.result.task_action = "created"
                  ELSE /\ Len(tasks') = Len(tasks)
                       /\ \E i \in OpenTasksOf(tasks, proc[p].alert_id) :
                            /\ \A j \in 1..Len(tasks) : j # i => tasks'[j] = tasks[j]
                            /\ tasks'[i].assigned_to = AssignedTo(proc[p])
                            /\ tasks'[i].alert_id = proc[p].alert_id
                            /\ last'.result.task_id = i
                       /\ last'.result.task_action = "updated"
      ]_vars

C9_Witness ==
    /\ Returned /\ last.action = "assign" /\ last.result.success
    /\ last.result.task_action = "updated"
    /\ Cardinality(TasksOf(tasks, AlertId)) = 1

\* C10: an alert never has more than one task created by the task linkage whose
\* status is pending or in_progress.
C10_OneOpenLinkedTask ==
    Cardinality({ i \in OpenTasksOf(tasks, AlertId) : tasks[i].created_by = SYSTEM_USER_ID }) <= 1

\* the resolution fields of an alert row that are set
ResolutionFieldsSet(row) ==
    { f \in {"resolution_type", "resolution_notes", "resolved_by"} : row[f] # NULL }
        \cup (IF row.resolved_at # 0 THEN {"resolved_at"} ELSE {})

ResolutionFields == {"resolution_type", "resolution_notes", "resolved_by", "resolved_at"}

\* C11: the resolution fields (resolution_type, resolution_notes, resolved_by,
\* resolved_at) of the alert are all set when its status is resolved and none of
\* them is set otherwise.
C11_ResolutionFieldsIffResolved ==
    IF Status = "resolved"
    THEN ResolutionFieldsSet(alerts[AlertId]) = ResolutionFields
    ELSE ResolutionFieldsSet(alerts[AlertId]) = {}

\* ------------------------------------------------------ task properties
\* the transition table of tasks the properties are stated against, per action
TaskTableRows(action) ==
    CASE action \in {"claim", "assign"} -> { <<"pending", "in_progress">> }
      [] action = "release" -> { <<"in_progress", "pending">> }
      [] action = "complete" -> { <<"in_progress", "completed">> }
      [] OTHER -> {}

TaskIndexes == 1..Len(tasks)
TaskReturned == tlast.pc = "done"

\* C12: completed is terminal: no step changes the status of a task that is
\* completed.
C12_CompletedIsTerminal ==
    [][ \A i \in TaskIndexes : tasks[i].status = "completed" => tasks'[i].status = "completed"
      ]_vars

\* C13: complete on a task that is already completed returns success=false with an
\* error in the step that dispatches it, appends no task_status_history row and
\* changes no column of the task; it never gets to its UPDATE.
C13_CompleteTwiceRejected ==
    [][ /\ (tlast'.pc = "done" /\ tlast'.action = "complete"
              /\ GetTask(tlast'.task_id).status = "completed")
             => /\ ~tlast'.result.success
                /\ tlast'.result.error = TaskPreconditionFailed
                /\ UNCHANGED <<tasks, task_history>>
        /\ \A p \in TaskProcs :
             (tproc[p].pc = "idle" /\ tproc'[p].pc = "checked" /\ tproc'[p].action = "complete")
                => GetTask(tproc'[p].task_id).status # "completed"
      ]_vars

C13_Witness ==
    /\ TaskReturned /\ tlast.action = "complete" /\ ~tlast.result.success
    /\ GetTask(tlast.task_id).status = "completed"
    /\ GetTask(tlast.task_id).completed_by = "u1@mail"
    /\ tlast.user_id = "u2"

\* C14: a task lifecycle action that succeeds changes the status of its task only
\* along the row of the task transition table for that action; release and complete
\* dispatched on a pending task fail, changing no task and no history row.
C14_TaskSuccessFollowsTable ==
    [][ /\ \A p \in TaskProcs :
             (tproc[p].pc = "checked" /\ tproc'[p].pc = "idle")
                => LET i == tproc[p].task_id
                   IN tasks'[i].status # tasks[i].status
                        => <<tasks[i].status, tasks'[i].status>> \in TaskTableRows(tproc[p].action)
        /\ \A p \in TaskProcs :
             (tproc[p].pc = "idle" /\ tproc'[p].pc = "checked"
                /\ tproc'[p].action \in {"release", "complete"})
                => GetTask(tproc'[p].task_id).status # "pending"
        /\ (tlast'.pc = "done" /\ tlast'.action \in {"release", "complete"}
              /\ GetTask(tlast'.task_id).status = "pending" /\ tproc' = tproc)
             => (~tlast'.result.success /\ UNCHANGED <<tasks, task_history>>)
      ]_vars

\* C15: claim by an existing user U on a task that is pending or in_progress succeeds
\* exactly when the task is unassigned or assigned to U, and then leaves the task
\* assigned to U and in_progress; on a task assigned to another user it returns
\* Conflict in the step that dispatches it, with the task and its history unchanged.
C15_ClaimUnlessAssignedToOther ==
    [][ /\ \A p \in TaskProcs :
             (tproc[p].pc = "idle" /\ tproc'[p].pc = "checked" /\ tproc'[p].action = "claim")
                => /\ GetTask(tproc'[p].task_id).assigned_to \in {NULL, tproc'[p].user_id}
                   /\ GetTask(tproc'[p].task_id).status \in {"pending", "in_progress"}
        /\ \A p \in TaskProcs :
             (tproc[p].pc = "checked" /\ tproc'[p].pc = "idle" /\ tproc[p].action = "claim")
                => /\ tasks'[tproc[p].task_id].assigned_to = tproc[p].user_id
                   /\ tasks'[tproc[p].task_id].status = "in_progress"
                   /\ tlast'.pc = "done" /\ tlast'.result.success
                   /\ tlast'.result.assigned_to = tproc[p].user_id
        /\ (tlast'.pc = "done" /\ tlast'.action = "claim" /\ tproc' = tproc
              /\ tlast'.user_id \in Users
              /\ GetTask(tlast'.task_id).status \in {"pending", "in_progress"})
             => /\ GetTask(tlast'.task_id).assigned_to \notin {NULL, tlast'.user_id}
                /\ ~tlast'.result.success
                /\ tlast'.result.error = Conflict
                /\ UNCHANGED <<tasks, task_history>>
      ]_vars

C15_Witness ==
    /\ TaskReturned /\ tlast.action = "claim" /\ tlast.user_id = "u1"
    /\ tlast.result.error = Conflict
    /\ GetTask(tlast.task_id).assigned_to = "u2"
    /\ GetTask(tlast.task_id).status = "in_progress"

\* C16: assign with an existing assignee on a task that is not completed sets
\* assigned_to to the assignee, takes a pending task to in_progress and leaves any
\* other status as it is, and appends a history row exactly when the status changed;
\* on a completed task it fails in the step that dispatches it and changes nothing.
C16_AssignTask ==
    [][ /\ \A p \in TaskProcs :
             (tproc[p].pc = "idle" /\ tproc'[p].pc = "checked" /\ tproc'[p].action = "assign")
                => GetTask(tproc'[p].task_id).status \notin {NULL, "completed"}
        /\ \A p \in TaskProcs :
             (tproc[p].pc = "checked" /\ tproc'[p].pc = "idle" /\ tproc[p].action = "assign")
                => LET i == tproc[p].task_id
                       changed == tasks[i].status = "pending"
                   IN /\ tasks'[i].assigned_to = tproc[p].params.assigned_to
                      /\ tasks'[i].status = IF changed THEN "in_progress" ELSE tasks[i].status
                      /\ tlast'.pc = "done" /\ tlast'.result.success
                      /\ IF changed
                         THEN /\ Len(task_history') = Len(task_history) + 1
                              /\ SubSeq(task_history', 1, Len(task_history)) = task_history
                              /\ task_history'[Len(task_history')].task_id = i
                              /\ task_history'[Len(task_history')].previous_status = "pending"
                              /\ task_history'[Len(task_history')].new_status = "in_progress"
                         ELSE task_history' = task_history
        /\ (tlast'.pc = "done" /\ tlast'.action = "assign" /\ tproc' = tproc
              /\ tlast'.params.assigned_to \in Users
              /\ GetTask(tlast'.task_id).status = "completed")
             => (~tlast'.result.success /\ UNCHANGED <<tasks, task_history>>)
      ]_vars

C16_Witness ==
    /\ TaskReturned /\ tlast.action = "assign" /\ tlast.result.success
    /\ tlast.task.status = "in_progress" /\ tlast.task.assigned_to = "u1"
    /\ GetTask(tlast.task_id).assigned_to = "u2"
    /\ GetTask(tlast.task_id).status = "in_progress"
    /\ Len(task_history) = 1

\* C17: completed_at of a task is set if and only if its status is completed.
C17_CompletedAtIffCompleted ==
    \A i \in TaskIndexes : (tasks[i].completed_at # 0) <=> (tasks[i].status = "completed")

\* ------------------------------------------------ alert properties, continued
\* C18: resolve with a resolution_type outside the enumeration fails whatever the
\* status of the alert: it returns success=false in the step that dispatches it,
\* with no status read and no row of the store changed, and never gets to an UPDATE.
C18_InvalidResolutionTypeFails ==
    [][ /\ (last'.pc = "done" /\ last'.action = "resolve"
              /\ last'.params.resolution_type \notin RESOLUTION_TYPES)
             => /\ ~last'.result.success
                /\ last'.result.error = IF last'.params.resolution_type = NULL
                                        THEN "resolution_type is required"
                                        ELSE "Invalid resolution type"
                /\ last'.current_status = NULL
                /\ proc' = proc
                /\ UNCHANGED db
        /\ \A p \in Procs :
             (proc'[p].pc # "idle" /\ proc'[p].action = "resolve")
                => proc'[p].params.resolution_type \in RESOLUTION_TYPES
      ]_vars

C18_Witness ==
    /\ Returned /\ last.action = "resolve" /\ last.params.resolution_type = "bogus"
    /\ ~last.result.success
    /\ Status = "in_progress"

\* C19: add_note with a content goes on to its activity whatever the status of the
\* alert, and the activity returns success having appended exactly one row to
\* alert_notes (for the alert, with the content), a call delivered again included;
\* no alert column and no history row changes, and nothing else writes a note.
C19_AddNoteAlwaysAppendsOne ==
    [][ /\ (last'.pc = "done" /\ last'.action = "add_note" /\ last'.params.content # NULL)
             => /\ last'.result.success
                /\ \E p \in Procs : proc[p].pc = "activity" /\ proc'[p].pc = "idle"
        /\ \A p \in Procs :
             (proc[p].pc = "activity" /\ proc[p].action = "add_note" /\ proc'[p] # proc[p])
                => /\ Len(notes') = Len(notes) + 1
                   /\ SubSeq(notes', 1, Len(notes)) = notes
                   /\ notes'[Len(notes')].alert_id = proc[p].alert_id
                   /\ notes'[Len(notes')].content = proc[p].params.content
                   /\ last'.pc = "done" /\ last'.result.success
                   /\ UNCHANGED <<alerts, history>>
        /\ notes' # notes
             => \E p \in Procs : proc[p].pc = "activity" /\ proc[p].action = "add_note"
                                  /\ proc'[p].pc = "idle"
        /\ \A p \in Procs :
             (proc[p].pc = "idle" /\ proc'[p].pc # "idle" /\ proc'[p].action = "add_note")
                => /\ proc'[p].pc = "activity"
                   /\ UNCHANGED <<alerts, history, notes>>
      ]_vars

C19_Witness ==
    /\ Returned /\ last.action = "add_note" /\ last.replay /\ last.result.success
    /\ Len(notes) = 2 /\ notes[1] = notes[2]
    /\ Status = "resolved"

\* C20: a call on an id that does not exist returns success=false, with the
\* not-found error when it passes the checks of its parameters (the Dispatcher's
\* own, that of resolution_type and, for claim and assign of tasks, that of the
\* user); no step of such a call writes an alert,
\* task, history or note row, and no activity of such a call is run again.
C20_UnknownIdFailsWithoutWrite ==
    [][ /\ (last'.pc = "done" /\ last'.alert_id \notin DOMAIN alerts)
             => /\ ~last'.result.success
                /\ DispatchCheck(last'.action, last'.user_role, last'.params) = NULL
                      => last'.result.error \in {"Alert not found", "Invalid resolution type"}
        /\ (tlast'.pc = "done" /\ GetTask(tlast'.task_id) = NoTask)
             => /\ ~tlast'.result.success
                /\ tlast'.result.error
                      \in {TaskNotFound, "User not found", "assigned_to is required"}
        /\ (\E p \in Procs : proc[p].alert_id \notin DOMAIN alerts /\ proc'[p] # proc[p])
             => UNCHANGED <<alerts, history, tasks, notes, task_history>>
        /\ \A p \in Procs : proc'[p].pc # "failed"
      ]_vars

C22_LinkFailureKeepsTransition ==
    [][ \A p \in Procs :
          proc'[p].pc = "linkfailed"
            => LET c == proc'[p]
                   row == alerts'[c.alert_id]
                   rows == history'[c.alert_id]
               IN /\ UNCHANGED <<alerts, history>>
                  /\ c.action \in {"assign", "escalate"}
                  /\ c.activity_result.success
                  /\ row.status = IF c.action = "assign" THEN "assigned" ELSE "escalated"
                  /\ c.action = "assign" => row.assigned_to = AssignedTo(c) /\ row.assigned_at # 0
                  /\ c.action = "escalate"
                       => row.escalated_to = c.params.escalated_to /\ row.escalated_at # 0
                  /\ Len(rows) > 0
                  /\ rows[Len(rows)].new_status = row.status
                  /\ rows[Len(rows)].previous_status # row.status
      ]_vars

C22_Witness ==
    \E p \in Procs :
        /\ proc[p].pc = "linkfailed" /\ proc[p].action = "escalate"
        /\ Status = "escalated" /\ alerts[AlertId].escalated_to = "u2"
        /\ Len(tasks) = 1

\* C23: the status UPDATE and the history INSERT of an activity are persisted
\* together or not at all: a step in which an activity raises between the two changes
\* no alert, task or history row, every step that changes the status of the alert
\* appends the history row of that change, and so does every step of a task activity
\* that changes the status of a task.
C23_StatusAndHistoryAtomic ==
    [][ /\ (\E p \in Procs : proc[p].pc = "checked" /\ proc'[p].pc = "failed")
             => UNCHANGED <<alerts, history, tasks, task_history>>
        /\ (\E p \in TaskProcs : tproc[p].pc = "checked" /\ tproc'[p].pc = "failed")
             => UNCHANGED <<alerts, history, tasks, task_history>>
        /\ alerts'[AlertId].status # alerts[AlertId].status
             => /\ Len(history'[AlertId]) = Len(history[AlertId]) + 1
                /\ SubSeq(history'[AlertId], 1, Len(history[AlertId])) = history[AlertId]
                /\ history'[AlertId][Len(history'[AlertId])].previous_status = alerts[AlertId].status
                /\ history'[AlertId][Len(history'[AlertId])].new_status = alerts'[AlertId].status
        /\ \A i \in TaskIndexes :
             (tproc' # tproc /\ tasks'[i].status # tasks[i].status)
                => /\ Len(task_history') = Len(task_history) + 1
                   /\ SubSeq(task_history', 1, Len(task_history)) = task_history
                   /\ task_history'[Len(task_history')].task_id = i
                   /\ task_history'[Len(task_history')].previous_status = tasks[i].status
                   /\ task_history'[Len(task_history')].new_status = tasks'[i].status
      ]_vars

C23_Witness ==
    \E p \in Procs :
        /\ proc[p].pc = "failed" /\ proc[p].action = "resolve"
        /\ Status = "in_progress" /\ alerts[AlertId].resolved_at = 0
        /\ Len(history[AlertId]) = 2

\* ------------------------------------------------------ user references
\* C24: an alert lifecycle action dispatched by an actor that users does not hold,
\* from a status its guard admits (with a target that is a user for assign and
\* escalate, a resolution_type of the enumeration for resolve), is applied, and every reference to the actor it persists is the
\* system identity: changed_by of the history row, assigned_by, escalated_by and
\* resolved_by of the alert, user_id of the note; every changed_by is a user.
C24_GhostActorBecomesSystem ==
    [][ /\ \A p \in Procs :
             (proc[p].pc = "idle" /\ proc'[p].pc # "idle" /\ proc'[p].user_id \notin Users)
                => proc'[p].pc \in {"activity", "checked"}
        /\ (last'.pc = "done" /\ last'.user_id \notin Users /\ proc' = proc
              /\ last'.action \in StatusActions
              /\ DispatchCheck(last'.action, last'.user_role, last'.params) = NULL
              /\ StatusGuard(last'.action, Status)
              /\ (last'.action = "resolve" => last'.params.resolution_type \in RESOLUTION_TYPES)
              /\ (RequiredUser(last') = NULL \/ RequiredUser(last') \in Users))
             => last'.result.success
        /\ \A p \in Procs :
             (proc[p].pc = "checked" /\ proc'[p].pc # "checked" /\ proc[p].user_id \notin Users)
                => LET c == proc[p]
                       row == alerts'[c.alert_id]
                       rows == history'[c.alert_id]
                   IN /\ row.status = TargetStatus(c.action)
                      /\ Len(rows) = Len(history[c.alert_id]) + 1
                      /\ (c.action # "assign" \/ Or(c.params.assigned_by, AssignedTo(c)) \notin Users)
                           => rows[Len(rows)].changed_by = SYSTEM_USER_ID
                      /\ (c.action = "assign" /\ Or(c.params.assigned_by, AssignedTo(c)) \notin Users)
                           => row.assigned_by = SYSTEM_USER_ID
                      /\ c.action = "escalate" => row.escalated_by = SYSTEM_USER_ID
                      /\ c.action = "resolve" => row.resolved_by = SYSTEM_USER_ID
        /\ \A p \in Procs :
             (proc[p].pc = "activity" /\ proc[p].action = "add_note" /\ proc'[p].pc = "idle"
                /\ proc[p].user_id \notin Users)
                => notes'[Len(notes')].user_id = SYSTEM_USER_ID
        /\ \A i \in 1..Len(history'[AlertId]) : history'[AlertId][i].changed_by \in Users
      ]_vars

\* C25: assign dispatched on an open alert with an assigned_to that users does not
\* hold is not rejected: it goes on to its UPDATE, which assigns the alert to the
\* system identity and takes it to assigned.
C25_GhostAssigneeBecomesSystem ==
    [][ /\ (last'.pc = "done" /\ last'.action = "assign" /\ proc' = proc
              /\ AssignedTo(last') \notin Users /\ Status = "open")
             => last'.result.success
        /\ \A p \in Procs :
             (proc[p].pc = "checked" /\ proc'[p].pc # "checked" /\ proc[p].action = "assign"
                /\ AssignedTo(proc[p]) \notin Users)
                => /\ alerts'[proc[p].alert_id].status = "assigned"
                   /\ alerts'[proc[p].alert_id].assigned_to = SYSTEM_USER_ID
      ]_vars

\* ---------------------------------------------------------- initialisation
InitRows == { i \in 1..Len(history[AlertId]) : history[AlertId][i].previous_status = "new" }

\* C26: init, run any number of times and in any status of the alert, goes on to
\* its activity, which returns success with status open, leaves the alert row as it
\* is and appends exactly one history row, new -> open by the system identity.
C26_InitAppendsOneRow ==
    [][ /\ \A p \in Procs :
             (proc[p].pc = "idle" /\ proc'[p].pc # "idle" /\ proc'[p].action = "init")
                => proc'[p].pc = "activity" /\ UNCHANGED <<alerts, history>>
        /\ (last'.pc = "done" /\ last'.action = "init")
             => /\ last'.result.success /\ last'.result.status = "open"
                /\ \E p \in Procs : proc[p].pc = "activity" /\ proc'[p].pc = "idle"
        /\ \A p \in Procs :
             (proc[p].pc = "activity" /\ proc[p].action = "init" /\ proc'[p] # proc[p])
                => /\ alerts' = alerts
                   /\ history'[proc[p].alert_id]
                        = Append(history[proc[p].alert_id],
                                 [previous_status |-> "new", new_status |-> "open",
                                  changed_by |-> SYSTEM_USER_ID])
                   /\ last'.pc = "done"
      ]_vars

C26_Witness ==
    /\ Returned /\ last.action = "init" /\ last.result.success
    /\ Status = "resolved"
    /\ Cardinality(InitRows) = 2

\* C27: every Dispatch call returns: a workflow execution in flight, on the alert
\* or on a task, is eventually over.
C27_DispatchReturns ==
    /\ \A p \in Procs : (proc[p].pc # "idle") ~> (proc[p].pc = "idle")
    /\ \A p \in TaskProcs : (tproc[p].pc # "idle") ~> (tproc[p].pc = "idle")

\* the severities that read critical, high, medium, low once lower-cased
SeverityReads(level) ==
    CASE level = "critical" -> {"critical", "CRITICAL"}
      [] level = "high" -> {"high", "High"}
      [] level = "medium" -> {"medium", "MEDIUM"}
      [] level = "low" -> {"low", "Low"}

\* C28: a task the task linkage creates has, for escalate, type escalation and
\* priority critical when the alert severity is critical and high otherwise; for
\* assign, type investigation and the lower-cased severity as priority when that is
\* critical, high, medium or low, and medium otherwise; its alert_id is the alert
\* and its assigned_to is the user the call names as target.
C28_CreatedTaskFromSeverity ==
    [][ Len(tasks') = Len(tasks) + 1 /\ last'.pc = "done" =>
          LET t == tasks'[Len(tasks')]
              severity == alerts[last'.alert_id].severity
          IN /\ last'.action \in {"assign", "escalate"}
             /\ last'.result.task_action = "created"
             /\ last'.result.task_id = Len(tasks')
             /\ t.alert_id = last'.alert_id
             /\ t.status = "pending"
             /\ last'.action = "escalate" =>
                   /\ t.task_type = "escalation"
                   /\ t.priority = (IF severity = "critical" THEN "critical" ELSE "high")
                   /\ last'.params.escalated_to # NULL => t.assigned_to = last'.params.escalated_to
             /\ last'.action = "assign" =>
                   /\ t.task_type = "investigation"
                   /\ \A level \in {"critical", "high", "medium", "low"} :
                         severity \in SeverityReads(level) => t.priority = level
                   /\ (\A level \in {"critical", "high", "medium", "low"} :
                          severity \notin SeverityReads(level)) => t.priority = "medium"
                   /\ t.assigned_to = last'.params.assigned_to
    ]_vars

\* an alert of severity CRITICAL has an investigation task of priority critical and,
\* that one completed, an escalation task of priority high for the escalation target
C28_Witness ==
    /\ alerts[AlertId].severity = "CRITICAL"
    /\ Len(tasks) = 2
    /\ tasks[1].task_type = "investigation" /\ tasks[1].priority = "critical"
    /\ tasks[1].status = "completed"
    /\ tasks[2].task_type = "escalation" /\ tasks[2].priority = "high"
    /\ tasks[2].assigned_to = "u2"
    /\ last.pc = "done" /\ last.action = "escalate" /\ last.result.task_action = "created"

\* C29: after assign(U1) and start, a successful escalate with escalated_to U2 leaves
\* the alert escalated and updates the open task of the alert in place (assigned_to
\* U2, status in_progress), without creating a second task.
C29_EscalateUpdatesOpenTask ==
    [][ /\ last'.pc = "done" /\ last'.action = "escalate" /\ last'.result.success
        /\ last'.params.escalated_to # NULL
        /\ ExistingTask(AlertId) # 0
        =>
        LET i == ExistingTask(AlertId)
        IN /\ alerts'[AlertId].status = "escalated"
           /\ alerts'[AlertId].escalated_to = last'.params.escalated_to
           /\ last'.result.task_action = "updated"
           /\ last'.result.task_id = i
           /\ Len(tasks') = Len(tasks)
           /\ tasks'[i].assigned_to = last'.params.escalated_to
           /\ tasks'[i].status = "in_progress"
           /\ tasks'[i].alert_id = tasks[i].alert_id
           /\ tasks'[i].task_type = tasks[i].task_type
           /\ \A j \in 1..Len(tasks) : j # i => tasks'[j] = tasks[j]
    ]_vars

\* the alert assigned to u1 and started was escalated to u2: its one task, created
\* for u1, is now u2's and in progress
C29_Witness ==
    /\ last.pc = "done" /\ last.action = "escalate" /\ last.result.success
    /\ last.result.task_action = "updated"
    /\ alerts[AlertId].status = "escalated"
    /\ alerts[AlertId].assigned_to = "u1"
    /\ Len(history[AlertId]) = 3
    /\ Len(tasks) = 1
    /\ tasks[1].task_type = "investigation"
    /\ tasks[1].assigned_to = "u2" /\ tasks[1].status = "in_progress"

\* C30: every change of a task's status is made together with a task_status_history
\* row that records the old and the new status of that task.
C30_TaskStatusChangeLogged ==
    [][ \A i \in 1..Len(tasks) :
          tasks'[i].status # tasks[i].status =>
             /\ Len(task_history') = Len(task_history) + 1
             /\ LET row == task_history'[Len(task_history')]
                IN /\ row.task_id = i
                   /\ row.previous_status = tasks[i].status
                   /\ row.new_status = tasks'[i].status
    ]_vars

\* rows is earlier followed by zero or more rows
Extends(rows, earlier) ==
    /\ Len(rows) >= Len(earlier)
    /\ \A i \in 1..Len(earlier) : rows[i] = earlier[i]

\* C31: no step updates or deletes a row of alert_status_history or of
\* task_status_history: each history is the previous one with rows appended.
C31_HistoryAppendOnly ==
    [][ /\ \A a \in DOMAIN history : Extends(history'[a], history[a])
        /\ Extends(task_history', task_history)
    ]_vars

\* both histories hold rows, and an activity that raised after them was run again
C31_Witness ==
    /\ Len(history[AlertId]) >= 2
    /\ Len(task_history) >= 1
    /\ \E p \in Procs : proc[p].pc = "failed"

\* C32: every row of task_status_history records a transition that happened:
\* previous_status differs from new_status and the pair is one of
\* TASK_STATUS_TRANSITIONS.
C32_TaskHistoryRowsAreTransitions ==
    \A i \in 1..Len(task_history) :
        /\ task_history[i].previous_status # task_history[i].new_status
        /\ <<task_history[i].previous_status, task_history[i].new_status>> \in TASK_STATUS_TRANSITIONS

\* the alert call names no known action or lacks the parameter its action requires
InvalidAlertCall(c) ==
    \/ c.action \notin {"init", "assign", "unassign", "start", "escalate", "hold", "resume",
                        "resolve", "reopen", "add_note"}
    \/ c.action = "escalate" /\ c.params.escalated_to = NULL
    \/ c.action = "resolve" /\ c.params.resolution_type = NULL
    \/ c.action = "add_note" /\ c.params.content = NULL

\* the task call names no known action or lacks the parameter its action requires
InvalidTaskCall(c) ==
    \/ c.action \notin {"claim", "release", "complete", "assign"}
    \/ c.action = "assign" /\ c.params.assigned_to = NULL

\* C33: a Dispatch call with an unknown action, or without the parameter its action
\* requires, returns success = false in the step that starts it: no activity of it
\* is ever in flight and no row changes.
C33_InvalidCallRejectedUnexecuted ==
    [][ /\ \A p \in Procs : proc'[p].pc # "idle" => ~InvalidAlertCall(proc'[p])
        /\ \A p \in TaskProcs : tproc'[p].pc # "idle" => ~InvalidTaskCall(tproc'[p])
        /\ (last'.pc = "done" /\ last' # last /\ InvalidAlertCall(last')) =>
              /\ ~last'.result.success /\ last'.result.error # NULL
              /\ proc' = proc
              /\ UNCHANGED <<alerts, history, tasks, notes, task_history>>
        /\ (tlast'.pc = "done" /\ tlast' # tlast /\ InvalidTaskCall(tlast')) =>
              /\ ~tlast'.result.success /\ tlast'.result.error # NULL
              /\ tproc' = tproc
              /\ UNCHANGED <<alerts, history, tasks, notes, task_history>>
    ]_vars

\* an escalate call without escalated_to was rejected on an alert in progress, where
\* the escalation itself was allowed
C33_Witness ==
    /\ last.pc = "done" /\ last.action = "escalate" /\ last.params.escalated_to = NULL
    /\ ~last.result.success
    /\ alerts[AlertId].status = "in_progress"

C35_ReopenEndpointManagerOnly ==
    [][ request' # request /\ request'.response # "none" =>
          LET declared == {request'.body_role, request'.query_role}
          IN IF declared \cap {"manager", "admin"} # {}
             THEN request'.response = "dispatched"
             ELSE request'.response = "403" /\ UNCHANGED <<proc, last>>
    ]_vars

\* C36: an alert in status open has assigned_to, assigned_by and assigned_at unset,
\* and an alert in status assigned, in_progress, escalated or on_hold has assigned_to
\* and assigned_at set.
C36_AssignmentFieldsFollowStatus ==
    LET row == alerts[AlertId]
    IN /\ row.status = "open" =>
             row.assigned_to = NULL /\ row.assigned_by = NULL /\ row.assigned_at = 0
       /\ row.status \in {"assigned", "in_progress", "escalated", "on_hold"} =>
             row.assigned_to # NULL /\ row.assigned_at # 0

\* C37: an alert Dispatch call that returns success = false has changed no row:
\* every transition a call committed is reported to its caller as a success. (A
\* status-changing call is at its activity again, having been past the check, only
\* when the activity committed and its completion was lost: that call returns here.)
C37_FailureMeansNoChange ==
    [][ \A p \in Procs :
          (/\ proc[p].pc = "activity" /\ proc[p].action \in StatusActions
           /\ reexecs > 0
           /\ proc'[p].pc = "idle" /\ last'.pc = "done")
          => last'.result.success
    ]_vars

\* C38: a task in status pending has assigned_to unset; a task has assigned_to set
\* only while it is in_progress or completed.
C38_PendingTaskUnassigned ==
    \A i \in 1..Len(tasks) :
        /\ tasks[i].status = "pending" => tasks[i].assigned_to = NULL
        /\ tasks[i].assigned_to # NULL => tasks[i].status \in {"in_progress", "completed"}

\* the rows of task_status_history that take the task from pending to in_progress
ClaimRows(task_id) ==
    { k \in 1..Len(task_history) :
        /\ task_history[k].task_id = task_id
        /\ task_history[k].previous_status = "pending"
        /\ task_history[k].new_status = "in_progress" }

\* C39: of the claims two different users make concurrently on an unassigned pending
\* task at most one succeeds: a task that was never released, assigned by a manager
\* or put back to pending by its workflow has pending -> in_progress rows of one
\* user at most.
C39_OneClaimWins ==
    \A i \in 1..Len(tasks) :
        (/\ tasks[i].assigned_by = NULL
         /\ tasks[i].workflow_status # "WAITING"
         /\ \A k \in 1..Len(task_history) :
               task_history[k].task_id = i => task_history[k].new_status # "pending")
        => Cardinality({ task_history[k].changed_by : k \in ClaimRows(i) }) <= 1

====
